---------------------------- MODULE Spec2Model ----------------------------
(***************************************************************************)
(* WeightSyncPro: the lorry queue (sessions), the weighments (capture      *)
(* records) and the HTTP handlers that change them.                        *)
(*                                                                         *)
(* The store is MemStorage (src/server/routes.ts:1110-1383): JavaScript    *)
(* Maps keyed by randomUUID().  A UUID is modelled as a fresh number drawn *)
(* from a counter that is never reset, so an id is never issued twice.     *)
(* Weights are written as whole grams (1080 is 1.080 kg); where the        *)
(* program computes with them (the tolerance check) they are the binary64  *)
(* numbers JavaScript holds, computed exactly.  Strings that the handlers  *)
(* only carry (lorryNumber, line, lineManager, phone, weightSource) are    *)
(* left out of the records.  createdAt is left out as well.                *)
(*                                                                         *)
(* Spec and QueueSpec are the HTTP handlers under any request; WeighingSpec*)
(* is the weighing and queue views at work on a lorry; ObserverSpec is the *)
(* server publishing to its connected browsers; ValidatorSpec is the       *)
(* tolerance check on its own; ForwardSpec is the capture handler with the *)
(* forwarder (apiClient.syncWeighment, whose delivery attempt is allowed   *)
(* to fail); SerialSpec and MqttSpec are the two ingestors with the        *)
(* transport objects they create, the start-up that connects them and the  *)
(* settings requests that reconnect them; ParserSpec and PayloadSpec are   *)
(* the ingestors' parsers on their own (a scale line, a broker payload).   *)
(***************************************************************************)
EXTENDS Integers, FiniteSets, Sequences, TLC

\* ------------------------------------------------------------------ bounds
\* Requests handled in one behaviour (every handler invocation counts).
MaxRequests == 3
\* PATCH /api/lorry-queue/:id/status requests in flight together (QueueSpec).
MaxInFlight == 2

\* ------------------------------------------------------------ input values
\* A field the request body does not carry (undefined / null).
Absent == "absent"
\* A numeric field the request body does not carry.
NoNumber == 0 - 1

\* status is free text in the schema and in req.body; "paused" stands for
\* every value outside the documented vocabulary.
StatusVocabulary == {"waiting", "active", "completed"}
StatusValues == StatusVocabulary \cup {"paused"}
\* What a create request may carry as status ("" is falsy in JavaScript).
CreateStatusInputs == {Absent, "", "active"}
\* totalBags as a request may carry it.
BagInputs == {NoNumber, 0, 1}

\* The operating day and one other day.
Today == "today"
Dates == {Today, "yesterday"}
TareWeights == {1}
GrossWeights == {10}
ToleranceStatuses == {"good", "error"}
ValidationActions == {"log", "review", "block"}
TagInputs == {Absent, "", "TAG"}

VARIABLES
    tareConfigs,      \* MemStorage.tareConfigs : id -> [date, tareWeight]
    lorryQueue,       \* MemStorage.lorryQueue  : id -> [status, totalBags, tareConfigId]
    weighments,       \* MemStorage.weighments  : id -> weighment record
    activities,       \* MemStorage.systemActivities, as [type, status] -> count
    validationAction, \* weightValidator.config.validationAction
    systemSettings,   \* MemStorage.systemSettings : category -> settings object
    pendingSaves,     \* weighment ids whose POST handler awaits syncWeighment
    pendingSettings,  \* settings bodies whose POST handler awaits the file write
    nextId,           \* ids issued so far, per Map (randomUUID freshness)
    last,             \* the handler step taken last and the status it sent (0: none yet)
    inflight,         \* status requests between their awaits (QueueSpec)
    nreq,             \* handler invocations so far
    toleranceRange,       \* weightValidator.config.toleranceRange, in grams
    weightSourcePriority, \* weightValidator.config.weightSourcePriority
    reading,          \* the WeightReading handed to validateWeights / calculateValidation
    check,            \* what validateWeights and calculateValidation made of it
    currentWeightReading, \* routes.ts: the server's latest reading of each source
    currentWeights,   \* weighing view: useState currentWeights
    currentTag,       \* weighing view: useState currentTag
    clients,          \* observers connected to the server's socket
    received,         \* observer -> the events delivered to it
    emitted,          \* events published so far (an event is known by its number)
    retryAttempts,    \* apiClient.config.retryAttempts
    apiConnected,     \* apiClient.connected
    syncCalls,        \* weighment id -> the syncWeighment call made for it
    serial,           \* serialClient: connected, usingSimulator, simulationInterval, serialPortInstance
    mqtt,             \* mqttClient: connected, usingSimulator, simulateTimer, mqttClient
    transports,       \* the SerialPort and MqttClient objects created so far, and their state
    probeTimers,      \* MqttClient objects whose connect's 15 s timer is pending
    hardware,         \* channel -> the port / broker is there
    listening,        \* initializeServices has registered its listeners
    running,          \* the process has not been terminated
    tasks,            \* initializeServices and settings requests between their awaits
    samples,          \* channel -> where the latest sample emitted came from
    channelStatus,    \* channel -> the mqtt_status / serial_status published last
    wire,             \* what arrived from a transport: a scale line or a broker payload
    decoded           \* what the ingestor made of it

\* The validator's configuration beside validationAction.
policyVars == <<toleranceRange, weightSourcePriority>>
\* The argument and the result of a tolerance check computed on its own, and
\* of an ingestor's parser run on its own.
codecVars == <<wire, decoded>>
pureVars == <<reading, check, codecVars>>
\* The weighing view's component state.
viewVars == <<currentWeights, currentTag>>
\* The socket server's state and what the observers hold.
observerVars == <<clients, received, emitted>>
\* The forwarder (apiClient) and its calls.
forwardVars == <<retryAttempts, apiConnected, syncCalls>>
\* The two ingestors (serialClient, mqttClient), their transports and callers.
ingestVars == <<serial, mqtt, transports, probeTimers, hardware, listening,
                running, tasks, samples, channelStatus>>
\* The services behind the routes.
serviceVars == <<forwardVars, ingestVars>>
\* Everything the ingestors and their callers leave alone.
outsideChannels == <<tareConfigs, lorryQueue, weighments, activities,
                     validationAction, pendingSaves, pendingSettings, nextId,
                     inflight, nreq, policyVars, pureVars, currentWeightReading,
                     viewVars, observerVars, forwardVars>>
\* The same for a step that publishes no channel status.
outsideIngest == <<outsideChannels, channelStatus>>

vars == <<tareConfigs, lorryQueue, weighments, activities, validationAction,
          systemSettings, pendingSaves, pendingSettings, nextId, last, inflight,
          nreq, policyVars, pureVars, currentWeightReading, viewVars,
          observerVars, serviceVars>>

\* ---------------------------------------------------------------- helpers
\* Map.set(k, v) on a Map modelled as a function.
MapSet(m, k, v) == [x \in DOMAIN m \cup {k} |-> IF x = k THEN v ELSE m[x]]

\* Map.delete(k).
MapDelete(m, k) == [x \in DOMAIN m \ {k} |-> m[x]]

ActivityKinds ==
    {<<"tare_config", "success">>, <<"lorry_added", "success">>,
     <<"lorry_status_changed", "success">>,
     <<"weighment", "success">>, <<"weighment", "warning">>}

\* MemStorage.createActivity: one more entry of this type and status.
CreateActivity(log, type, status) ==
    [log EXCEPT ![<<type, status>>] = @ + 1]

\* ---------------------------------------------------------------- numbers
\* A weight arrives as a decimal numeral of whole grams (0.101 kg) and is
\* held as a JavaScript number, an IEEE 754 binary64 value: the nearest
\* number with 53 significant binary digits.  The weights handled here are 0
\* or from 1 g to below 2 kg, so every number met (a weight, a sum, a
\* difference, a tolerance) is a multiple of 2^-62 below 4.  It is written
\* in base 2^16 as a sequence of Limbs digits, most significant first, one
\* before the point and the others after it.
LimbBits == 16
Base == 65536
Limbs == 5
SigBits == 53
Thousand == 1000

RECURSIVE Pow2(_)
Pow2(k) == IF k = 0 THEN 1 ELSE 2 * Pow2(k - 1)

RECURSIVE BitLength(_)
\* The number of binary digits of n.
BitLength(n) == IF n = 0 THEN 0 ELSE 1 + BitLength(n \div 2)

RECURSIVE DecimalLimbs(_, _)
\* The first n digits after the point of r / 1000, for r < 1000.
DecimalLimbs(r, n) ==
    IF n = 0 THEN << >>
    ELSE <<(r * Base) \div Thousand>>
            \o DecimalLimbs((r * Base) % Thousand, n - 1)

RECURSIVE DecimalRest(_, _)
\* What those n digits leave of r / 1000.
DecimalRest(r, n) ==
    IF n = 0 THEN r ELSE DecimalRest((r * Base) % Thousand, n - 1)

RECURSIVE AddLimbs(_, _, _, _)
\* Digits 1..i of a + b, c being the carry into digit i.
AddLimbs(a, b, i, c) ==
    IF i = 0 THEN << >>
    ELSE AddLimbs(a, b, i - 1, (a[i] + b[i] + c) \div Base)
            \o <<(a[i] + b[i] + c) % Base>>

RECURSIVE SubLimbs(_, _, _, _)
\* Digits 1..i of a - b (a >= b), c being the borrow from digit i.
SubLimbs(a, b, i, c) ==
    IF i = 0 THEN << >>
    ELSE SubLimbs(a, b, i - 1, IF a[i] - b[i] - c < 0 THEN 1 ELSE 0)
            \o <<(a[i] - b[i] - c + Base) % Base>>

Less(a, b) ==
    \E i \in 1..Limbs : a[i] < b[i] /\ \A j \in 1..(i - 1) : a[j] = b[j]

LessOrEqual(a, b) == ~Less(b, a)

\* Round to nearest, ties to even: the exact value a (plus, when inexact, a
\* non-zero rest below its last digit) as a number of SigBits significant
\* binary digits.  Below 4 the binary digits dropped are in the last limb.
RoundToNearest(a, inexact) ==
    LET nonzero == {i \in 1..Limbs : a[i] # 0}
        top == CHOOSE i \in nonzero : \A j \in nonzero : i <= j
        drop == LimbBits * (Limbs - top) + BitLength(a[top]) - SigBits
    IN IF nonzero = {} \/ drop <= 0 THEN a
       ELSE LET unit == Pow2(drop)
                low == a[Limbs] % unit
                kept == [a EXCEPT ![Limbs] = @ - low]
                odd == (a[Limbs] \div unit) % 2 = 1
                up == \/ 2 * low > unit
                      \/ 2 * low = unit /\ (inexact \/ odd)
            IN IF up
                 THEN AddLimbs(kept, [i \in 1..Limbs |->
                                        IF i = Limbs THEN unit ELSE 0], Limbs, 0)
                 ELSE kept

\* The number a decimal numeral of g thousandths denotes (JSON.parse,
\* parseFloat), for 0 <= g < 4000.
Number(g) ==
    RoundToNearest(<<g \div Thousand>> \o DecimalLimbs(g % Thousand, Limbs - 1),
                   DecimalRest(g % Thousand, Limbs - 1) # 0)

\* a + b, |a - b|, a * 2 and a / 2 as the processor computes them.
Plus(a, b) == RoundToNearest(AddLimbs(a, b, Limbs, 0), FALSE)

AbsMinus(a, b) ==
    RoundToNearest(IF Less(a, b) THEN SubLimbs(b, a, Limbs, 0)
                   ELSE SubLimbs(a, b, Limbs, 0), FALSE)

Twice(a) == AddLimbs(a, a, Limbs, 0)

Half(a) ==
    [i \in 1..Limbs |->
        a[i] \div 2 + IF i > 1 THEN (a[i - 1] % 2) * (Base \div 2) ELSE 0]

\* -------------------------------------------------------- WeightValidator
\* !w for a weight: undefined and 0 are falsy.
Falsy(w) == w = NoNumber \/ w = 0

\* validateWeights threw instead of returning a ToleranceCheck.
Thrown == [outcome |-> "thrown"]

\* WeightValidator.getToleranceStatus, and the same two comparisons in
\* calculateValidation.
GetToleranceStatus(difference, range) ==
    IF LessOrEqual(difference, range) THEN "good"
    ELSE IF LessOrEqual(difference, Twice(range)) THEN "warning"
    ELSE "error"

\* WeightValidator.calculateFinalWeight.
CalculateFinalWeight(plcWeight, serialWeight) ==
    CASE weightSourcePriority = "plc" -> plcWeight
      [] weightSourcePriority = "serial" -> serialWeight
      [] weightSourcePriority = "average" -> Half(Plus(plcWeight, serialWeight))
      [] OTHER -> plcWeight

\* WeightValidator.getWeightSource.
GetWeightSource ==
    IF weightSourcePriority \in {"plc", "serial", "average"}
      THEN weightSourcePriority ELSE "plc"

\* WeightValidator.validateWeights(reading), the reading's weights given as
\* decimals in grams.
ValidateWeights(rd) ==
    IF Falsy(rd.plcWeight) /\ Falsy(rd.serialWeight) THEN Thrown
    ELSE IF Falsy(rd.plcWeight) \/ Falsy(rd.serialWeight)
      THEN [outcome |-> "returned",
            difference |-> Number(0), tolerance |-> toleranceRange,
            status |-> "good",
            finalWeight |-> IF Falsy(rd.plcWeight) THEN Number(rd.serialWeight)
                            ELSE Number(rd.plcWeight),
            weightSource |-> IF Falsy(rd.plcWeight) THEN "serial" ELSE "plc"]
    ELSE LET difference == AbsMinus(Number(rd.plcWeight), Number(rd.serialWeight))
         IN [outcome |-> "returned",
             difference |-> difference, tolerance |-> toleranceRange,
             status |-> GetToleranceStatus(difference, Number(toleranceRange)),
             finalWeight |-> CalculateFinalWeight(Number(rd.plcWeight),
                                                  Number(rd.serialWeight)),
             weightSource |-> GetWeightSource]

\* The tolerance the weighing view computes with: const tolerance = 0.05.
ViewTolerance == 50

\* weighing-interface.tsx calculateValidation, over the view's currentWeights.
CalculateValidation(rd) ==
    IF Falsy(rd.plcWeight) /\ Falsy(rd.serialWeight)
      THEN [outcome |-> "returned",
            difference |-> Number(0), tolerance |-> ViewTolerance,
            status |-> "error", finalWeight |-> Number(0),
            weightSource |-> "plc"]
    ELSE IF Falsy(rd.plcWeight) \/ Falsy(rd.serialWeight)
      THEN [outcome |-> "returned",
            difference |-> Number(0), tolerance |-> ViewTolerance,
            status |-> "good",
            finalWeight |-> IF Falsy(rd.plcWeight) THEN Number(rd.serialWeight)
                            ELSE Number(rd.plcWeight),
            weightSource |-> IF Falsy(rd.plcWeight) THEN "serial" ELSE "plc"]
    ELSE LET difference == AbsMinus(Number(rd.plcWeight), Number(rd.serialWeight))
         IN [outcome |-> "returned",
             difference |-> difference, tolerance |-> ViewTolerance,
             status |-> GetToleranceStatus(difference, Number(ViewTolerance)),
             finalWeight |-> Number(rd.plcWeight),
             weightSource |-> "plc"]

\* ------------------------------------------------------------- observers
\* The browsers that may hold a socket to the server.
Observers == {"o1", "o2"}

\* The Socket.IO server, and the null that stands for none.
NullIo == "null"
SocketIo == "io"

\* The io the route handlers close over: the bootstrap calls
\* registerRoutes(app, null as any) and hands the Socket.IO server it creates
\* later to initializeServicesWithSocketIO only.
RoutesIo == NullIo

\* io.emit(type, ...): the event, known by its number, goes to the sockets
\* that are connected now.
BroadcastToEveryObserver(type) ==
    [o \in Observers |-> received[o] \cup {[seq |-> emitted + 1, type |-> type]}]

Broadcast(type) ==
    [o \in Observers |->
        IF o \in clients
          THEN received[o] \cup {[seq |-> emitted + 1, type |-> type]}
          ELSE received[o]]

\* io?.emit(type, ...) in a route handler: nothing is published through a
\* null io.
IoEmit(io, type) ==
    IF io = NullIo
      THEN UNCHANGED observerVars
      ELSE /\ received' = Broadcast(type)
           /\ emitted' = emitted + 1
           /\ UNCHANGED clients

\* ------------------------------------------------------------------- Init
Idle == [pc |-> "idle", id |-> 0, status |-> Absent, totalBags |-> NoNumber,
         found |-> FALSE, code |-> 0, prev |-> Absent, raced |-> FALSE]

\* toleranceRange of the default validator instance: 0.05 kg.
DefaultToleranceRange == 50

\* useState / module initialiser: no reading of either source yet.
NoReading == [plcWeight |-> NoNumber, serialWeight |-> NoNumber]

\* Nothing has arrived from a transport.
NothingDecoded == wire = << >> /\ decoded = [outcome |-> "none"]

\* No tolerance check computed, by the validator or by the weighing view.
NoCheck == [validator |-> [outcome |-> "none"], view |-> [outcome |-> "none"]]

\* The store, the handlers and the socket server after construction.
ServerInit ==
    /\ tareConfigs = << >>
    /\ lorryQueue = << >>
    /\ weighments = << >>
    /\ activities = [k \in ActivityKinds |-> 0]
    /\ systemSettings = << >>
    /\ pendingSaves = {}
    /\ pendingSettings = {}
    /\ nextId = [tare |-> 1, lorry |-> 1, weighment |-> 1]
    /\ last = [op |-> "none", code |-> 0]
    /\ inflight = [r \in 1..MaxInFlight |-> Idle]
    /\ nreq = 0
    /\ currentWeightReading = NoReading
    /\ clients = {}
    /\ received = [o \in Observers |-> {}]
    /\ emitted = 0

\* The weighing view after its first render.
ViewInit ==
    /\ currentWeights = NoReading
    /\ currentTag = ""

\* The default validator instance.
DefaultPolicy ==
    /\ toleranceRange = DefaultToleranceRange
    /\ weightSourcePriority = "plc"
    /\ validationAction = "log"

\* new APIClient({retryAttempts: parseInt(process.env.API_RETRY_ATTEMPTS ||
\* '3')}): not connected, no call made.
DefaultRetryAttempts == 3

\* The two channels.
Channels == {"serial", "mqtt"}

\* new SerialClient(...): usingSimulator starts true.
FreshSerial ==
    [connected |-> FALSE, usingSimulator |-> TRUE,
     simulationInterval |-> FALSE, serialPortInstance |-> 0]

\* new MQTTClient(...).
FreshMqtt ==
    [connected |-> FALSE, usingSimulator |-> FALSE,
     simulateTimer |-> FALSE, mqttClient |-> 0]

\* The ingestors as constructed, nothing called on them yet.
IngestorsInit ==
    /\ serial = FreshSerial
    /\ mqtt = FreshMqtt
    /\ transports = << >>
    /\ probeTimers = {}
    /\ listening = FALSE
    /\ running = TRUE
    /\ tasks = << >>
    /\ samples = [ch \in Channels |-> "none"]
    /\ channelStatus = [ch \in Channels |-> "none"]

ServicesInit ==
    /\ retryAttempts = DefaultRetryAttempts
    /\ apiConnected = FALSE
    /\ syncCalls = << >>
    /\ IngestorsInit
    /\ hardware = [ch \in Channels |-> FALSE]

Init ==
    /\ ServerInit
    /\ ServicesInit
    /\ DefaultPolicy
    /\ ViewInit
    /\ reading = NoReading
    /\ check = NoCheck
    /\ NothingDecoded

\* A request is taken up: every handler invocation counts against the bound.
Request(handler) ==
    /\ nreq < MaxRequests
    /\ nreq' = nreq + 1
    /\ handler

\* ------------------------------------------------- POST /api/tare-config
\* MemStorage.createTareConfig.
CreateTareConfig(date, tareWeight) ==
    MapSet(tareConfigs, nextId.tare, [date |-> date, tareWeight |-> tareWeight])

PostTareConfig(date, tareWeight) ==
    /\ IF tareWeight = NoNumber
         THEN \* insertTareConfigSchema.parse throws
              /\ last' = [op |-> "postTare", code |-> 400]
              /\ UNCHANGED <<tareConfigs, activities, nextId, observerVars>>
         ELSE /\ tareConfigs' = CreateTareConfig(date, tareWeight)
              /\ nextId' = [nextId EXCEPT !.tare = @ + 1]
              /\ activities' = CreateActivity(activities, "tare_config", "success")
              /\ IoEmit(RoutesIo, "tare_config_updated")
              /\ last' = [op |-> "postTare", code |-> 201]
    /\ UNCHANGED <<lorryQueue, weighments, validationAction, systemSettings,
                   pendingSaves, pendingSettings, inflight, policyVars,
                   pureVars, serviceVars, currentWeightReading, viewVars>>

\* -------------------------------------------------- POST /api/lorry-queue
\* What insertLorryQueueSchema.parse accepts: lorryNumber (with line and
\* lineManager, which travel with it) is required; status, totalBags and
\* tareConfigId are optional and, when present, are stored as sent.
\* tareConfigId 0 is null.  The bodies drawn here carry no totalBags, so a
\* created lorry's totalBags is undefined (createLorry sets no default).
LorryBodies ==
    [lorryNumber : {Absent, "LN"}, status : CreateStatusInputs,
     totalBags : {NoNumber}, tareConfigId : 0..(nextId.tare - 1)]

\* MemStorage.createLorry: { ...lorry, id, status: lorry.status || "waiting" }.
CreateLorry(body) ==
    MapSet(lorryQueue, nextId.lorry,
           [status |-> IF body.status \in {Absent, ""} THEN "waiting"
                       ELSE body.status,
            totalBags |-> body.totalBags,
            tareConfigId |-> body.tareConfigId])

PostLorry(body) ==
    /\ IF body.lorryNumber = Absent
         THEN \* insertLorryQueueSchema.parse throws
              /\ last' = [op |-> "postLorry", code |-> 400]
              /\ UNCHANGED <<lorryQueue, activities, nextId, observerVars>>
         ELSE /\ lorryQueue' = CreateLorry(body)
              /\ nextId' = [nextId EXCEPT !.lorry = @ + 1]
              /\ activities' = CreateActivity(activities, "lorry_added", "success")
              /\ IoEmit(RoutesIo, "lorry_queue_updated")
              /\ last' = [op |-> "postLorry", code |-> 201]
    /\ UNCHANGED <<tareConfigs, weighments, validationAction, systemSettings,
                   pendingSaves, pendingSettings, inflight, policyVars,
                   pureVars, serviceVars, currentWeightReading, viewVars>>

\* ------------------------------------- PATCH /api/lorry-queue/:id/status
\* Ids a request may name: every id issued so far (in the queue or removed
\* from it) and 0, an id that was never issued.
LorryIdInputs == 0..(nextId.lorry - 1)

\* MemStorage.updateLorryStatus: { ...existing, status, ...(totalBags !==
\* undefined && { totalBags }) }; the queue is returned unchanged for an id
\* it does not hold (the method returns undefined).
UpdateLorryStatus(id, status, totalBags) ==
    IF id \notin DOMAIN lorryQueue THEN lorryQueue
    ELSE [lorryQueue EXCEPT
            ![id] = [@ EXCEPT !.status = status,
                              !.totalBags = IF totalBags = NoNumber THEN @
                                            ELSE totalBags]]

\* The whole handler.  With MemStorage its awaits resolve without I/O, so
\* its continuations run before any other request's handler starts.
PatchLorryStatus(id, status, totalBags) ==
    /\ lorryQueue' = UpdateLorryStatus(id, status, totalBags)
    /\ IF id \notin DOMAIN lorryQueue
         THEN /\ last' = [op |-> "patchStatus", code |-> 404]
              /\ UNCHANGED <<activities, observerVars>>
         ELSE /\ activities' =
                    CreateActivity(activities, "lorry_status_changed", "success")
              /\ IoEmit(RoutesIo, "lorry_status_updated")
              /\ last' = [op |-> "patchStatus", code |-> 200]
    /\ UNCHANGED <<tareConfigs, weighments, validationAction, systemSettings,
                   pendingSaves, pendingSettings, nextId, inflight, policyVars,
                   pureVars, serviceVars, currentWeightReading, viewVars>>

\* ---------------------------------------- DELETE /api/lorry-queue/:id
\* MemStorage.removeLorryFromQueue: this.lorryQueue.delete(id).
RemoveLorryFromQueue(id) == MapDelete(lorryQueue, id)

\* The handler removing the lorry's weighments along with the lorry.
DeleteLorryWithWeighments(id) ==
    /\ lorryQueue' = RemoveLorryFromQueue(id)
    /\ weighments' =
          [w \in {x \in DOMAIN weighments : weighments[x].lorryId # id}
              |-> weighments[w]]
    /\ IF id \in DOMAIN lorryQueue
         THEN /\ IoEmit(RoutesIo, "lorry_removed")
              /\ last' = [op |-> "deleteLorry", code |-> 204]
         ELSE /\ last' = [op |-> "deleteLorry", code |-> 404]
              /\ UNCHANGED observerVars
    /\ UNCHANGED <<tareConfigs, activities, validationAction,
                   systemSettings, pendingSaves, pendingSettings, nextId,
                   inflight, policyVars, pureVars, serviceVars, currentWeightReading,
                   viewVars>>

DeleteLorry(id) ==
    /\ lorryQueue' = RemoveLorryFromQueue(id)
    /\ IF id \in DOMAIN lorryQueue
         THEN /\ IoEmit(RoutesIo, "lorry_removed")
              /\ last' = [op |-> "deleteLorry", code |-> 204]
         ELSE /\ last' = [op |-> "deleteLorry", code |-> 404]
              /\ UNCHANGED observerVars
    /\ UNCHANGED <<tareConfigs, weighments, activities, validationAction,
                   systemSettings, pendingSaves, pendingSettings, nextId,
                   inflight, policyVars, pureVars, serviceVars, currentWeightReading,
                   viewVars>>

\* ------------------------------------------------------ reads of the store
ActiveLorries == {id \in DOMAIN lorryQueue : lorryQueue[id].status = "active"}

\* getTareConfigByDate(today) finds a configuration.
TareConfiguredToday ==
    \E t \in DOMAIN tareConfigs : tareConfigs[t].date = Today

\* The tare the store joins to a lorry (getLorryById: tareConfig looked up by
\* tareConfigId), read the way the weighing view reads it:
\* activeLorry.tareConfig?.tareWeight || 0.
ConfiguredTare(id) ==
    LET c == lorryQueue[id].tareConfigId
    IN IF c \in DOMAIN tareConfigs THEN tareConfigs[c].tareWeight ELSE 0

\* --------------------------------------------------- POST /api/weighments
\* What insertWeighmentSchema.parse accepts: lorryId, tagId, finalWeight,
\* tareWeight, netWeight and toleranceStatus are required (tagId stands for
\* all of them here: a body without it fails the parse); any string, the
\* empty one included, and any number pass.  weightDifference is optional;
\* the bodies drawn here do not carry it.
WeighmentBodies ==
    [lorryId : LorryIdInputs, tagId : TagInputs, finalWeight : GrossWeights,
     tareWeight : {0} \cup TareWeights,
     netWeight : {g - t : g \in GrossWeights, t \in {0} \cup TareWeights},
     toleranceStatus : ToleranceStatuses, weightDifference : {NoNumber}]

\* createWeighment with the Map keyed by the tag instead of a fresh id: a
\* second save of a tag replaces the first one's record.
CreateWeighmentKeyedByTag(body) ==
    LET same == {id \in DOMAIN weighments : weighments[id].tagId = body.tagId}
    IN MapSet(weighments,
              IF same = {} THEN nextId.weighment ELSE CHOOSE id \in same : TRUE,
              [lorryId |-> body.lorryId, tagId |-> body.tagId,
               finalWeight |-> body.finalWeight, tareWeight |-> body.tareWeight,
               netWeight |-> body.netWeight,
               toleranceStatus |-> body.toleranceStatus,
               weightDifference |-> body.weightDifference])

\* MemStorage.createWeighment: { ...weighment, id, createdAt } under a fresh id.
CreateWeighment(body) ==
    MapSet(weighments, nextId.weighment,
           [lorryId |-> body.lorryId, tagId |-> body.tagId,
            finalWeight |-> body.finalWeight, tareWeight |-> body.tareWeight,
            netWeight |-> body.netWeight,
            toleranceStatus |-> body.toleranceStatus,
            weightDifference |-> body.weightDifference])

\* The activity the handler logs for a saved weighment.
WeighmentActivity(log, w) ==
    CreateActivity(log, "weighment",
                   IF w.toleranceStatus = "good" THEN "success" ELSE "warning")

\* The handler storing the body before it parses it: a body that fails the
\* parse is answered 400 and leaves its record behind.
PostWeighmentStoringUnparsed(body) ==
    /\ weighments' = CreateWeighment(body)
    /\ nextId' = [nextId EXCEPT !.weighment = @ + 1]
    /\ IF body.tagId = Absent
         THEN /\ last' = [op |-> "postWeighment", code |-> 400]
              /\ UNCHANGED <<activities, pendingSaves, observerVars>>
         ELSE IF body.lorryId \in DOMAIN lorryQueue
                THEN /\ pendingSaves' = pendingSaves \cup {nextId.weighment}
                     /\ last' = [op |-> "postWeighment", code |-> 0]
                     /\ UNCHANGED <<activities, observerVars>>
                ELSE /\ activities' = WeighmentActivity(activities, body)
                     /\ IoEmit(RoutesIo, "weighment_created")
                     /\ last' = [op |-> "postWeighment", code |-> 201]
                     /\ UNCHANGED pendingSaves
    /\ UNCHANGED <<tareConfigs, lorryQueue, validationAction, systemSettings,
                   pendingSettings, inflight, policyVars, pureVars, serviceVars,
                   currentWeightReading, viewVars>>

\* The handler up to its first await that waits for I/O: parse, createWeighment,
\* getLorryById and, when the lorry is in the queue, the call of
\* apiClient.syncWeighment (a timer-driven delay).  Without the lorry nothing
\* is awaited on I/O and the handler runs to its response.
PostWeighment(body) ==
    /\ IF body.tagId = Absent
         THEN \* insertWeighmentSchema.parse throws
              /\ last' = [op |-> "postWeighment", code |-> 400]
              /\ UNCHANGED <<weighments, activities, nextId, pendingSaves,
                             observerVars>>
         ELSE /\ weighments' = CreateWeighment(body)
              /\ nextId' = [nextId EXCEPT !.weighment = @ + 1]
              /\ IF body.lorryId \in DOMAIN lorryQueue
                   THEN /\ pendingSaves' = pendingSaves \cup {nextId.weighment}
                        /\ last' = [op |-> "postWeighment", code |-> 0]
                        /\ UNCHANGED <<activities, observerVars>>
                   ELSE /\ activities' = WeighmentActivity(activities, body)
                        /\ IoEmit(RoutesIo, "weighment_created")
                        /\ last' = [op |-> "postWeighment", code |-> 201]
                        /\ UNCHANGED pendingSaves
    /\ UNCHANGED <<tareConfigs, lorryQueue, validationAction, systemSettings,
                   pendingSettings, inflight, policyVars, pureVars, serviceVars,
                   currentWeightReading, viewVars>>

\* The handler undoing the capture when the forwarder reports failure: the
\* weighment is deleted again and the request is answered 400.
FinishWeighmentUndoingFailedSync(id) ==
    LET failed == id \in DOMAIN syncCalls /\ syncCalls[id].outcome = "failure"
    IN /\ id \in pendingSaves
       /\ pendingSaves' = pendingSaves \ {id}
       /\ weighments' = IF failed THEN MapDelete(weighments, id) ELSE weighments
       /\ activities' = IF failed THEN activities
                         ELSE WeighmentActivity(activities, weighments[id])
       /\ last' = [op |-> "finishWeighment",
                   code |-> IF failed THEN 400 ELSE 201]
       /\ UNCHANGED <<tareConfigs, lorryQueue, validationAction,
                      systemSettings, pendingSettings, nextId, inflight, nreq,
                      policyVars, pureVars, serviceVars, currentWeightReading,
                      viewVars, observerVars>>

\* The rest of the handler, once syncWeighment has returned (it returns an
\* APIResponse for success and for failure alike, and what it might throw is
\* caught and logged): log, broadcast, 201.
FinishWeighment(id) ==
    /\ id \in pendingSaves
    /\ pendingSaves' = pendingSaves \ {id}
    /\ activities' = WeighmentActivity(activities, weighments[id])
    /\ IoEmit(RoutesIo, "weighment_created")
    /\ last' = [op |-> "finishWeighment", code |-> 201]
    /\ UNCHANGED <<tareConfigs, lorryQueue, weighments, validationAction,
                   systemSettings, pendingSettings, nextId, inflight, nreq,
                   policyVars, pureVars, serviceVars, currentWeightReading, viewVars>>

\* ------------------------------------------- POST /api/settings/tolerance
\* Values a settings form may carry.
ToleranceRanges == {50, 100}
WeightSourcePriorities == {"plc", "serial", "average"}

\* Every tolerance settings object; each field is optional.
PolicyBodies ==
    [validationAction : ValidationActions \cup {Absent},
     toleranceRange : ToleranceRanges \cup {NoNumber},
     weightSourcePriority : WeightSourcePriorities \cup {Absent}]

\* The tolerance settings that change the validation action at most.
ToleranceBodies ==
    {body \in PolicyBodies :
        body.toleranceRange = NoNumber /\ body.weightSourcePriority = Absent}

\* MemStorage.upsertSettings: the stored settings object is replaced by the
\* body (not merged with the previous one).
UpsertSettings(category, body) == MapSet(systemSettings, category, body)

\* WeightValidator.updateConfig: { ...this.config, ...newConfig }.
UpdateValidatorConfig(body) ==
    [validationAction |->
        IF body.validationAction = Absent THEN validationAction
        ELSE body.validationAction,
     toleranceRange |->
        IF body.toleranceRange = NoNumber THEN toleranceRange
        ELSE body.toleranceRange,
     weightSourcePriority |->
        IF body.weightSourcePriority = Absent THEN weightSourcePriority
        ELSE body.weightSourcePriority]

\* The handler up to the await of saveSettingsToDisk inside upsertSettings.
PostToleranceSettings(body) ==
    /\ systemSettings' = UpsertSettings("tolerance", body)
    /\ pendingSettings' = pendingSettings \cup {body}
    /\ last' = [op |-> "postSettings", code |-> 0]
    /\ UNCHANGED <<tareConfigs, lorryQueue, weighments, activities,
                   validationAction, pendingSaves, nextId, inflight,
                   policyVars, pureVars, serviceVars, currentWeightReading, viewVars,
                   observerVars>>

\* After the file is written: updateServiceConfigurations, then the response.
FinishToleranceSettings(body) ==
    /\ body \in pendingSettings
    /\ pendingSettings' = pendingSettings \ {body}
    /\ validationAction' = UpdateValidatorConfig(body).validationAction
    /\ toleranceRange' = UpdateValidatorConfig(body).toleranceRange
    /\ weightSourcePriority' = UpdateValidatorConfig(body).weightSourcePriority
    /\ last' = [op |-> "finishSettings", code |-> 200]
    /\ UNCHANGED <<tareConfigs, lorryQueue, weighments, activities,
                   systemSettings, pendingSaves, nextId, inflight, nreq,
                   pureVars, serviceVars, currentWeightReading, viewVars, observerVars>>

Next ==
    \/ \E d \in Dates, t \in TareWeights \cup {NoNumber} :
          Request(PostTareConfig(d, t))
    \/ \E body \in LorryBodies : Request(PostLorry(body))
    \/ \E id \in LorryIdInputs, st \in StatusValues, b \in BagInputs :
          Request(PatchLorryStatus(id, st, b))
    \/ \E id \in LorryIdInputs : Request(DeleteLorry(id))
    \/ \E body \in WeighmentBodies : Request(PostWeighment(body))
    \/ \E id \in pendingSaves : FinishWeighment(id)
    \/ \E body \in ToleranceBodies : Request(PostToleranceSettings(body))
    \/ \E body \in pendingSettings : FinishToleranceSettings(body)

Spec == Init /\ [][Next]_vars

\* ------------------------------------------------------------------------
\* The status handler step by step, one step per await, for requests that
\* are in flight together.  storage.updateLorryStatus and
\* storage.createActivity are async methods without awaits of their own:
\* each runs to its end when it is called and the handler resumes later.
\* A slot carries one request; prev (the stored status the request found)
\* and raced (another status request was in flight when this one arrived)
\* are history kept for the properties, the handler reads neither.

InFlight(r) == inflight[r].pc \in {"awaitUpdate", "awaitActivity"}

\* The handler is entered and calls storage.updateLorryStatus.
PatchBegin(r, id, status, totalBags) ==
    /\ inflight[r].pc = "idle"
    /\ lorryQueue' = UpdateLorryStatus(id, status, totalBags)
    /\ LET others == {q \in DOMAIN inflight : q # r /\ InFlight(q)}
       IN inflight' =
            [q \in DOMAIN inflight |->
               IF q = r
                 THEN [pc |-> "awaitUpdate", id |-> id, status |-> status,
                       totalBags |-> totalBags,
                       found |-> id \in DOMAIN lorryQueue, code |-> 0,
                       prev |-> IF id \in DOMAIN lorryQueue
                                  THEN lorryQueue[id].status ELSE Absent,
                       raced |-> others # {}]
               ELSE IF q \in others THEN [inflight[q] EXCEPT !.raced = TRUE]
               ELSE inflight[q]]
    /\ last' = [op |-> "patchBegin", code |-> 0]
    /\ UNCHANGED <<tareConfigs, weighments, activities, validationAction,
                   systemSettings, pendingSaves, pendingSettings, nextId, nreq,
                   policyVars, pureVars, serviceVars, currentWeightReading, viewVars,
                   observerVars>>

\* updateLorryStatus has returned: 404 for undefined, else createActivity
\* is called.
PatchAfterUpdate(r) ==
    /\ inflight[r].pc = "awaitUpdate"
    /\ IF inflight[r].found
         THEN /\ activities' =
                    CreateActivity(activities, "lorry_status_changed", "success")
              /\ inflight' = [inflight EXCEPT ![r].pc = "awaitActivity"]
              /\ last' = [op |-> "patchAfterUpdate", code |-> 0]
         ELSE /\ inflight' = [inflight EXCEPT ![r].pc = "done", ![r].code = 404]
              /\ last' = [op |-> "patchAfterUpdate", code |-> 404]
              /\ UNCHANGED activities
    /\ UNCHANGED <<tareConfigs, lorryQueue, weighments, validationAction,
                   systemSettings, pendingSaves, pendingSettings, nextId, nreq,
                   policyVars, pureVars, serviceVars, currentWeightReading, viewVars,
                   observerVars>>

\* createActivity has returned: broadcast and res.json(updatedLorry).
PatchFinish(r) ==
    /\ inflight[r].pc = "awaitActivity"
    /\ inflight' = [inflight EXCEPT ![r].pc = "done", ![r].code = 200]
    /\ IoEmit(RoutesIo, "lorry_status_updated")
    /\ last' = [op |-> "patchFinish", code |-> 200]
    /\ UNCHANGED <<tareConfigs, lorryQueue, weighments, activities,
                   validationAction, systemSettings, pendingSaves,
                   pendingSettings, nextId, nreq, policyVars, pureVars, serviceVars,
                   currentWeightReading, viewVars>>

\* What QueueManagement's createLorryMutation sends: the form fields and
\* tareConfigId: currentTare?.id || null; no status, no totalBags.
ClientLorryBodies ==
    {body \in LorryBodies :
        /\ body.lorryNumber # Absent
        /\ body.status = Absent
        /\ body.totalBags = NoNumber}

\* The rows the queue view may show: every lorry it was ever sent (a row can
\* be stale, its lorry removed in the meantime).
ClientLorryIds == 1..(nextId.lorry - 1)

\* What the Start and Complete buttons send: updateStatusMutation.mutate({
\* id, status: 'active' | 'completed' }), totalBags undefined.
ClientStatusInputs == {"active", "completed"}

\* The queue view's requests, with the status requests interleaved.
QueueNext ==
    \/ \E d \in Dates, t \in TareWeights : Request(PostTareConfig(d, t))
    \/ \E body \in ClientLorryBodies : Request(PostLorry(body))
    \/ \E r \in DOMAIN inflight, id \in ClientLorryIds, st \in ClientStatusInputs :
          PatchBegin(r, id, st, NoNumber)
    \/ \E r \in DOMAIN inflight : PatchAfterUpdate(r)
    \/ \E r \in DOMAIN inflight : PatchFinish(r)
    \/ \E id \in ClientLorryIds : Request(DeleteLorry(id))

QueueSpec == Init /\ [][QueueNext]_vars

\* ------------------------------------------------------------------------
\* The weighing view and the queue view at work on one lorry: the day's tare
\* is configured, a lorry is queued and started, the view receives weights
\* and a tag, saves weighments and the lorry is completed from either view;
\* the tolerance settings are saved in between.  The views read the store
\* through queries that every mutation invalidates; they are taken to hold
\* what the store holds.

\* Requests the two views send in one behaviour, and lorries they queue.
MaxViewRequests == 7
MaxLorries == 1

\* A view's request is taken up.
ViewRequest(handler) ==
    /\ nreq < MaxViewRequests
    /\ nreq' = nreq + 1
    /\ handler

\* The weights the two sources report (1.080 kg and 1.000 kg) and the tag.
PlcWeights == {1080}
SerialWeights == {1000}
Tags == {"TAG"}

\* The settings form sends the whole tolerance object.
FormPolicyBodies ==
    {body \in PolicyBodies :
        /\ body.validationAction = "log"
        /\ body.toleranceRange # NoNumber
        /\ body.weightSourcePriority \in {"plc", "serial"}}

\* handleLorrySubmit and createLorryMutation: the form is sent once a tare is
\* configured for today, with that configuration's id.
SubmitLorry ==
    /\ nextId.lorry <= MaxLorries
    /\ \E t \in DOMAIN tareConfigs :
          /\ tareConfigs[t].date = Today
          /\ \A u \in DOMAIN tareConfigs : tareConfigs[u].date = Today => t <= u
          /\ PostLorry([lorryNumber |-> "LN", status |-> Absent,
                        totalBags |-> NoNumber, tareConfigId |-> t])

\* The Start button of a waiting row.
StartLorry(id) ==
    /\ id \in DOMAIN lorryQueue
    /\ lorryQueue[id].status = "waiting"
    /\ PatchLorryStatus(id, "active", NoNumber)

\* The Complete button of an active row: no totalBags is sent.
CompleteFromQueueView(id) ==
    /\ id \in DOMAIN lorryQueue
    /\ lorryQueue[id].status = "active"
    /\ PatchLorryStatus(id, "completed", NoNumber)

\* The weighing view's activeLorry: lorryQueue.find(l => l.status ===
\* 'active') over the queue in creation order; 0 if there is none.
ActiveLorry ==
    IF ActiveLorries = {} THEN 0
    ELSE CHOOSE id \in ActiveLorries : \A other \in ActiveLorries : id <= other

\* The weighments the view lists for a lorry.
WeighmentsOf(id) == {w \in DOMAIN weighments : weighments[w].lorryId = id}

\* subscribe('weight_update'): the reported weight replaces the source's own.
OnWeightUpdate(source, weight) ==
    /\ currentWeights' =
          IF source = "plc" THEN [currentWeights EXCEPT !.plcWeight = weight]
          ELSE [currentWeights EXCEPT !.serialWeight = weight]
    /\ currentWeights' # currentWeights
    /\ UNCHANGED <<tareConfigs, lorryQueue, weighments, activities,
                   validationAction, systemSettings, pendingSaves,
                   pendingSettings, nextId, last, inflight, nreq, policyVars,
                   pureVars, serviceVars, currentWeightReading, currentTag, observerVars>>

\* subscribe('tag_update').
OnTagUpdate(tag) ==
    /\ currentTag' = tag
    /\ currentTag' # currentTag
    /\ UNCHANGED <<tareConfigs, lorryQueue, weighments, activities,
                   validationAction, systemSettings, pendingSaves,
                   pendingSettings, nextId, last, inflight, nreq, policyVars,
                   pureVars, serviceVars, currentWeightReading, currentWeights, observerVars>>

\* What saveWeighmentMutation posts.  The weights drawn are above the tare,
\* so finalWeight - tareWeight is their distance.
SaveBody ==
    LET validation == CalculateValidation(currentWeights)
        tare == ConfiguredTare(ActiveLorry)
    IN [lorryId |-> ActiveLorry, tagId |-> currentTag,
        finalWeight |-> validation.finalWeight, tareWeight |-> tare,
        netWeight |-> AbsMinus(validation.finalWeight, Number(tare)),
        toleranceStatus |-> validation.status,
        weightDifference |-> validation.difference]

\* The Save button (enabled with a tag, a status other than error and no
\* save pending) and saveWeighmentMutation up to the handler's await.
SaveWeighment ==
    /\ pendingSaves = {}
    /\ currentTag # ""
    /\ CalculateValidation(currentWeights).status # "error"
    /\ ActiveLorry # 0
    /\ PostWeighment(SaveBody)

\* completeLorryMutation: totalBags is weighments.length + 1.
CompleteFromWeighingView ==
    /\ ActiveLorry # 0
    /\ PatchLorryStatus(ActiveLorry, "completed",
                        Cardinality(WeighmentsOf(ActiveLorry)) + 1)

WeighingNext ==
    \/ \E t \in TareWeights : ViewRequest(PostTareConfig(Today, t))
    \/ ViewRequest(SubmitLorry)
    \/ \E id \in DOMAIN lorryQueue : ViewRequest(StartLorry(id))
    \/ \E w \in PlcWeights : OnWeightUpdate("plc", w)
    \/ \E w \in SerialWeights : OnWeightUpdate("serial", w)
    \/ \E tag \in Tags : OnTagUpdate(tag)
    \/ ViewRequest(SaveWeighment)
    \/ \E id \in pendingSaves : FinishWeighment(id)
    \/ ViewRequest(CompleteFromWeighingView)
    \/ \E id \in DOMAIN lorryQueue : ViewRequest(CompleteFromQueueView(id))
    \/ \E body \in FormPolicyBodies : ViewRequest(PostToleranceSettings(body))
    \/ \E body \in pendingSettings : FinishToleranceSettings(body)

WeighingSpec == Init /\ [][WeighingNext]_vars

\* ------------------------------------------------------------------------
\* The server and the browsers that listen to it: observers connect and
\* disconnect, the PLC and the scale report weights, which the services
\* publish through the Socket.IO server, and requests are served by the route
\* handlers, which publish through the io they were registered with.

\* Events the services publish and requests served in one behaviour.
MaxEvents == 2
MaxObservedRequests == 3

ObservedRequest(handler) ==
    /\ nreq < MaxObservedRequests
    /\ nreq' = nreq + 1
    /\ handler

\* What an MQTT payload carries as weight (none, 0 or 1.080 kg).
PayloadWeights == {NoNumber, 0} \cup PlcWeights

\* A socket is opened: the server counts it among the connected.  Nothing is
\* sent to it on connection.
Connect(o) ==
    /\ o \notin clients
    /\ clients' = clients \cup {o}
    /\ UNCHANGED <<tareConfigs, lorryQueue, weighments, activities,
                   validationAction, systemSettings, pendingSaves,
                   pendingSettings, nextId, last, inflight, nreq, policyVars,
                   pureVars, serviceVars, currentWeightReading, viewVars, received, emitted>>

\* The socket is closed.
Disconnect(o) ==
    /\ o \in clients
    /\ clients' = clients \ {o}
    /\ UNCHANGED <<tareConfigs, lorryQueue, weighments, activities,
                   validationAction, systemSettings, pendingSaves,
                   pendingSettings, nextId, last, inflight, nreq, policyVars,
                   pureVars, serviceVars, currentWeightReading, viewVars, received, emitted>>

\* The message handler replacing the whole reading by one of its own, the
\* scale's weight gone.
OnMqttMessageReplacingReading(weight) ==
    /\ emitted < MaxEvents
    /\ IF Falsy(weight)
         THEN UNCHANGED <<currentWeightReading, observerVars>>
         ELSE /\ currentWeightReading' =
                    [plcWeight |-> weight, serialWeight |-> NoNumber]
              /\ IoEmit(SocketIo, "weight_update")
    /\ UNCHANGED <<tareConfigs, lorryQueue, weighments, activities,
                   validationAction, systemSettings, pendingSaves,
                   pendingSettings, nextId, last, inflight, nreq, policyVars,
                   pureVars, serviceVars, viewVars>>

\* mqttClient.on("message"): payload.weight || payload.value || payload.data
\* is published unless it is null or undefined; a weight of 0 is falsy and
\* falls through to undefined.
OnMqttMessage(weight) ==
    /\ emitted < MaxEvents
    /\ IF Falsy(weight)
         THEN UNCHANGED <<currentWeightReading, observerVars>>
         ELSE /\ currentWeightReading' =
                    [currentWeightReading EXCEPT !.plcWeight = weight]
              /\ IoEmit(SocketIo, "weight_update")
    /\ UNCHANGED <<tareConfigs, lorryQueue, weighments, activities,
                   validationAction, systemSettings, pendingSaves,
                   pendingSettings, nextId, last, inflight, nreq, policyVars,
                   pureVars, serviceVars, viewVars>>

\* serialClient.on("data"): every reading is stored and published.
OnSerialData(weight) ==
    /\ emitted < MaxEvents
    /\ currentWeightReading' =
          [currentWeightReading EXCEPT !.serialWeight = weight]
    /\ IoEmit(SocketIo, "weight_update")
    /\ UNCHANGED <<tareConfigs, lorryQueue, weighments, activities,
                   validationAction, systemSettings, pendingSaves,
                   pendingSettings, nextId, last, inflight, nreq, policyVars,
                   pureVars, serviceVars, viewVars>>

\* The requests the observed server is sent.
ObservedLorryBody ==
    [lorryNumber |-> "LN", status |-> Absent, totalBags |-> NoNumber,
     tareConfigId |-> 0]

ObservedWeighmentBodies ==
    {body \in WeighmentBodies :
        /\ body.tagId = "TAG"
        /\ body.lorryId \in DOMAIN lorryQueue
        /\ body.tareWeight = 0
        /\ body.netWeight = body.finalWeight
        /\ body.toleranceStatus = "good"}

ObserverNext ==
    \/ \E o \in Observers : Connect(o)
    \/ \E o \in Observers : Disconnect(o)
    \/ \E w \in PayloadWeights : OnMqttMessage(w)
    \/ \E w \in SerialWeights : OnSerialData(w)
    \/ ObservedRequest(PostLorry(ObservedLorryBody))
    \/ \E id \in DOMAIN lorryQueue :
          ObservedRequest(PatchLorryStatus(id, "active", NoNumber))
    \/ \E id \in DOMAIN lorryQueue : ObservedRequest(DeleteLorry(id))
    \/ \E body \in ObservedWeighmentBodies : ObservedRequest(PostWeighment(body))
    \/ \E id \in pendingSaves : FinishWeighment(id)

ObserverSpec == Init /\ [][ObserverNext]_vars

\* ------------------------------------------------------------------------
\* The forwarder: POST /api/weighments awaits apiClient.syncWeighment, which
\* tries to deliver the weighment up to retryAttempts times.  The delivery
\* itself is a stand-in in the code (a delay of 100 ms, then success); the
\* attempt is also let throw, as the catch block around it provides for (the
\* request the stand-in is to be replaced with, or a listener of
\* sync_success).

\* Weighments saved in one behaviour, and the largest retryAttempts configured.
MaxCaptures == 1
MaxRetryAttempts == 4

\* config.retryAttempts as the constructor or updateConfig may set it.
RetryAttemptValues == 1..MaxRetryAttempts

\* delay(1000 * attempt), in milliseconds.
BackoffUnit == 1000
Backoff(attempt) == BackoffUnit * attempt

\* A call of syncWeighment at its start: attempt = 0, nothing tried.
NewCall ==
    [pc |-> "entered", attempt |-> 0, made |-> 0, waits |-> << >>,
     outcome |-> "none"]

\* The loop condition off by one.
MayAttemptOnceMore(attempt) == attempt <= retryAttempts

\* while (attempt < this.config.retryAttempts)
MayAttempt(attempt) == attempt < retryAttempts

\* The loop condition is evaluated: either the next attempt starts (the delay
\* that stands for the request), or the loop is left, lastError is thrown,
\* caught, and the failure response is returned.
EnterLoop(call) ==
    IF MayAttempt(call.attempt)
      THEN [call EXCEPT !.pc = "request", !.made = @ + 1]
      ELSE [call EXCEPT !.pc = "returned", !.outcome = "failure"]

\* syncWeighment is called for a weighment whose handler awaits it:
\* testConnection if not connected, then the first evaluation of the loop.
SyncWeighment(id) ==
    /\ id \in pendingSaves
    /\ id \notin DOMAIN syncCalls
    /\ apiConnected' = TRUE
    /\ syncCalls' = MapSet(syncCalls, id, EnterLoop(NewCall))
    /\ UNCHANGED <<tareConfigs, lorryQueue, weighments, activities,
                   validationAction, systemSettings, pendingSaves,
                   pendingSettings, nextId, last, inflight, nreq, policyVars,
                   pureVars, currentWeightReading, viewVars, observerVars,
                   retryAttempts, ingestVars>>

\* The attempt completes: sync_success is emitted and the response returned.
AttemptReturns(id) ==
    /\ id \in DOMAIN syncCalls
    /\ syncCalls[id].pc = "request"
    /\ syncCalls' = [syncCalls EXCEPT ![id].pc = "returned",
                                      ![id].outcome = "success"]
    /\ UNCHANGED <<tareConfigs, lorryQueue, weighments, activities,
                   validationAction, systemSettings, pendingSaves,
                   pendingSettings, nextId, last, inflight, nreq, policyVars,
                   pureVars, currentWeightReading, viewVars, observerVars,
                   retryAttempts, apiConnected, ingestVars>>

\* The attempt throws: attempt++, then the backoff delay if another attempt is
\* due, else the loop condition fails at once.
AttemptThrows(id) ==
    /\ id \in DOMAIN syncCalls
    /\ syncCalls[id].pc = "request"
    /\ LET attempt == syncCalls[id].attempt + 1
           failed == [syncCalls[id] EXCEPT !.attempt = attempt]
       IN syncCalls' =
            [syncCalls EXCEPT ![id] =
                IF MayAttempt(attempt)
                  THEN [failed EXCEPT !.pc = "backoff",
                                      !.waits = Append(@, Backoff(attempt))]
                  ELSE EnterLoop(failed)]
    /\ UNCHANGED <<tareConfigs, lorryQueue, weighments, activities,
                   validationAction, systemSettings, pendingSaves,
                   pendingSettings, nextId, last, inflight, nreq, policyVars,
                   pureVars, currentWeightReading, viewVars, observerVars,
                   retryAttempts, apiConnected, ingestVars>>

\* The backoff delay is over: the loop condition is evaluated again.
BackoffEnds(id) ==
    /\ id \in DOMAIN syncCalls
    /\ syncCalls[id].pc = "backoff"
    /\ syncCalls' = [syncCalls EXCEPT ![id] = EnterLoop(@)]
    /\ UNCHANGED <<tareConfigs, lorryQueue, weighments, activities,
                   validationAction, systemSettings, pendingSaves,
                   pendingSettings, nextId, last, inflight, nreq, policyVars,
                   pureVars, currentWeightReading, viewVars, observerVars,
                   retryAttempts, apiConnected, ingestVars>>

\* apiClient.updateConfig({retryAttempts: n}), from POST /api/settings/api.
UpdateConfig(n) ==
    /\ retryAttempts' = n
    /\ retryAttempts' # retryAttempts
    /\ UNCHANGED <<tareConfigs, lorryQueue, weighments, activities,
                   validationAction, systemSettings, pendingSaves,
                   pendingSettings, nextId, last, inflight, nreq, policyVars,
                   pureVars, currentWeightReading, viewVars, observerVars,
                   apiConnected, syncCalls, ingestVars>>

\* The handler goes on once the awaited call has returned.
ResumeWeighment(id) ==
    /\ id \in DOMAIN syncCalls
    /\ syncCalls[id].pc = "returned"
    /\ FinishWeighment(id)

\* The forwarder's timers and the call's own steps.
ForwardProgress ==
    \E id \in 1..MaxCaptures :
        \/ SyncWeighment(id)
        \/ AttemptReturns(id)
        \/ AttemptThrows(id)
        \/ BackoffEnds(id)

ForwardInit ==
    /\ ServerInit
    /\ DefaultPolicy
    /\ ViewInit
    /\ reading = NoReading
    /\ check = NoCheck
    /\ NothingDecoded
    /\ retryAttempts \in RetryAttemptValues
    /\ apiConnected = FALSE
    /\ syncCalls = << >>
    /\ IngestorsInit
    /\ hardware = [ch \in Channels |-> FALSE]

ForwardNext ==
    \/ /\ nextId.lorry <= MaxLorries
       /\ PostLorry(ObservedLorryBody)
       /\ UNCHANGED nreq
    \/ \E body \in ObservedWeighmentBodies :
          /\ nextId.weighment <= MaxCaptures
          /\ PostWeighment(body)
          /\ UNCHANGED nreq
    \/ \E id \in pendingSaves : SyncWeighment(id)
    \/ \E id \in DOMAIN syncCalls : AttemptReturns(id)
    \/ \E id \in DOMAIN syncCalls : AttemptThrows(id)
    \/ \E id \in DOMAIN syncCalls : BackoffEnds(id)
    \/ \E id \in pendingSaves : ResumeWeighment(id)
    \/ \E n \in RetryAttemptValues : UpdateConfig(n)

ForwardSpec == ForwardInit /\ [][ForwardNext]_vars

\* The same with the timers firing and the calls taking their steps.
ForwardFairSpec == ForwardSpec /\ WF_vars(ForwardProgress)

\* ------------------------------------------------------------------------
\* The ingestors: serialClient and mqttClient, the SerialPort and MqttClient
\* objects they create, initializeServices that connects them at start-up and
\* POST /api/settings/serial and /mqtt that reconnect them.  A transport
\* object's events run the handlers the ingestor registered on it; the
\* handlers are closures over the ingestor, so they act on the ingestor
\* whichever object it holds now.

\* Settings requests served in one behaviour.
MaxUpdates == 2

\* emitter.emit("error", ...): without a listener for "error" the emit
\* throws.  TRUE if it returns.
EmitError == listening

\* The listeners initializeServices registers for "connect" and "error"
\* publish serial_status / mqtt_status with connected true / false; nothing
\* listens for "disconnect".
StatusPublished(ch, connected) ==
    IF listening
      THEN [channelStatus EXCEPT
              ![ch] = IF connected THEN "connected" ELSE "disconnected"]
      ELSE channelStatus

\* SerialClient.startSimulator.
StartSimulator(s) ==
    IF s.usingSimulator THEN s
    ELSE [s EXCEPT !.usingSimulator = TRUE, !.connected = TRUE,
                   !.simulationInterval = TRUE]

\* MQTTClient.startWeightSimulation.
StartWeightSimulation(m) ==
    IF m.usingSimulator THEN m
    ELSE [m EXCEPT !.usingSimulator = TRUE, !.connected = TRUE,
                   !.simulateTimer = TRUE]

\* SerialClient.disconnect up to its await: the interval is cleared, and the
\* port is closed if there is one and the simulator flag is down.
AwaitsClose(s) == s.serialPortInstance # 0 /\ ~s.usingSimulator
IntervalCleared(s) == [s EXCEPT !.simulationInterval = FALSE]

\* SerialClient.disconnect after the await of close.
PortReleased(s) ==
    [s EXCEPT !.serialPortInstance = 0, !.connected = FALSE,
              !.usingSimulator = FALSE]

\* SerialClient.disconnect when nothing is to be closed.
SerialDisconnected(s) ==
    [IntervalCleared(s) EXCEPT !.connected = FALSE, !.usingSimulator = FALSE]

\* port.close(callback): an open port closes and emits close; on any other
\* port the callback is called at once with an error.
CloseCalled(h) ==
    IF transports[h].state = "open"
      THEN [transports EXCEPT ![h].state = "closing"]
      ELSE transports

\* MQTTClient.disconnect.
MqttDisconnected(m) ==
    [m EXCEPT !.simulateTimer = FALSE, !.mqttClient = 0,
              !.connected = FALSE, !.usingSimulator = FALSE]

\* mqttClient.end().
EndCalled(h) ==
    IF h = 0 THEN transports
    ELSE [transports EXCEPT ![h].state = "ending"]

\* A call in progress: initializeServices or a settings request.
NewTask(kind, ch, pc) ==
    [kind |-> kind, ch |-> ch, pc |-> pc, disconnects |-> 0, connects |-> 0,
     closing |-> 0, outcome |-> "none"]

SettingsTasks == {t \in DOMAIN tasks : tasks[t].kind = "settings"}

\* initializeServices: the listeners are registered, the stored settings are
\* loaded, then mqttClient.connect() and serialClient.connect() are awaited.
RegisterListeners ==
    /\ running
    /\ ~listening
    /\ listening' = TRUE
    /\ tasks' = Append(tasks, NewTask("startup", "mqtt", "connect"))
    /\ last' = [op |-> "initializeServices", code |-> Len(tasks) + 1]
    /\ UNCHANGED <<serial, mqtt, transports, probeTimers, hardware, running,
                   samples, systemSettings, outsideIngest>>

\* POST /api/settings/serial: the settings are stored, the ingestor's config
\* updated, and serialClient.disconnect() is called.
PostSerialSettings ==
    /\ running
    /\ Cardinality(SettingsTasks) < MaxUpdates
    /\ systemSettings' = UpsertSettings("serial", [port |-> "COM4"])
    /\ LET t == Len(tasks) + 1
           called == Append(tasks, NewTask("settings", "serial", "called"))
       IN IF AwaitsClose(serial)
            THEN /\ serial' = IntervalCleared(serial)
                 /\ transports' = CloseCalled(serial.serialPortInstance)
                 /\ tasks' = [called EXCEPT ![t].pc = "closing",
                                            ![t].disconnects = 1,
                                            ![t].closing = serial.serialPortInstance]
                 /\ last' = [op |-> "disconnectBegin", code |-> t]
            ELSE /\ serial' = SerialDisconnected(serial)
                 /\ tasks' = [called EXCEPT ![t].pc = "cooldown",
                                            ![t].disconnects = 1]
                 /\ last' = [op |-> "disconnect", code |-> t]
                 /\ UNCHANGED transports
    /\ UNCHANGED <<mqtt, probeTimers, hardware, listening, running, samples,
                   outsideIngest>>

\* The close callback has been called: disconnect() goes on to its end.
CloseReturned(t) ==
    /\ running
    /\ t \in DOMAIN tasks
    /\ tasks[t].pc \in {"closing", "connectClosing"}
    /\ transports[tasks[t].closing].state # "closing"
    /\ serial' = PortReleased(serial)
    /\ tasks' = [tasks EXCEPT ![t].pc = IF @ = "closing" THEN "cooldown"
                                        ELSE "connectCooldown",
                              ![t].closing = 0]
    /\ last' = [op |-> "disconnect", code |-> t]
    /\ UNCHANGED <<mqtt, transports, probeTimers, hardware, listening,
                   running, samples, systemSettings, outsideIngest>>

\* serialClient.connect() is called (by initializeServices, or by the
\* settings handler once its 100 ms are over): if (this.connected) it awaits
\* disconnect() and 200 ms; then it awaits the imports and SerialPort.list().
SerialConnectCalled(t) ==
    /\ running
    /\ t \in DOMAIN tasks
    /\ tasks[t].ch = "serial"
    /\ tasks[t].pc \in {"connect", "cooldown"}
    /\ IF serial.connected
         THEN IF AwaitsClose(serial)
                THEN /\ serial' = IntervalCleared(serial)
                     /\ transports' = CloseCalled(serial.serialPortInstance)
                     /\ tasks' = [tasks EXCEPT ![t].pc = "connectClosing",
                                               ![t].connects = @ + 1,
                                               ![t].disconnects = @ + 1,
                                               ![t].closing = serial.serialPortInstance]
                     /\ last' = [op |-> "disconnectBegin", code |-> t]
                ELSE /\ serial' = SerialDisconnected(serial)
                     /\ tasks' = [tasks EXCEPT ![t].pc = "connectCooldown",
                                               ![t].connects = @ + 1,
                                               ![t].disconnects = @ + 1]
                     /\ last' = [op |-> "disconnect", code |-> t]
                     /\ UNCHANGED transports
         ELSE /\ tasks' = [tasks EXCEPT ![t].pc = "importing",
                                        ![t].connects = @ + 1]
              /\ last' = [op |-> "connectBegin", code |-> t]
              /\ UNCHANGED <<serial, transports>>
    /\ UNCHANGED <<mqtt, probeTimers, hardware, listening, running, samples,
                   systemSettings, outsideIngest>>

\* The 200 ms after connect's own disconnect are over.
ConnectCooldownEnds(t) ==
    /\ running
    /\ t \in DOMAIN tasks
    /\ tasks[t].pc = "connectCooldown"
    /\ tasks' = [tasks EXCEPT ![t].pc = "importing"]
    /\ last' = [op |-> "connectBegin", code |-> t]
    /\ UNCHANGED <<serial, mqtt, transports, probeTimers, hardware, listening,
                   running, samples, systemSettings, outsideIngest>>

\* How connect fares once the imports and the port list are in: the driver
\* module is missing, the configured port is not among the ports listed, the
\* SerialPort constructor throws, or the port object is created.
ConnectWays == {"nodriver", "notlisted", "constructorThrows", "created"}

SerialConnectDecides(t, way) ==
    /\ running
    /\ t \in DOMAIN tasks
    /\ tasks[t].pc = "importing"
    /\ way = "created" \/ ~hardware["serial"]
    /\ IF way = "created"
         THEN /\ transports' = Append(transports,
                                      [ch |-> "serial", state |-> "opening"])
              /\ serial' = [serial EXCEPT
                                !.serialPortInstance = Len(transports) + 1]
              /\ tasks' = [tasks EXCEPT ![t].pc = "probing"]
              /\ last' = [op |-> "portCreated", code |-> t]
              /\ UNCHANGED channelStatus
         ELSE /\ serial' = StartSimulator(serial)
              /\ channelStatus' = IF serial.usingSimulator THEN channelStatus
                                   ELSE StatusPublished("serial", TRUE)
              /\ tasks' = [tasks EXCEPT ![t].pc = "done",
                                        ![t].outcome = "returned"]
              /\ last' = [op |-> "connect", code |-> t]
              /\ UNCHANGED transports
    /\ UNCHANGED <<mqtt, probeTimers, hardware, listening, running, samples,
                   systemSettings, outsideChannels>>

\* The wait for open, error or 1 s is over: connect returns.
ProbeEnds(t) ==
    /\ running
    /\ t \in DOMAIN tasks
    /\ tasks[t].pc = "probing"
    /\ tasks' = [tasks EXCEPT ![t].pc = "done", ![t].outcome = "returned"]
    /\ last' = [op |-> "connect", code |-> t]
    /\ UNCHANGED <<serial, mqtt, transports, probeTimers, hardware, listening,
                   running, samples, systemSettings, outsideIngest>>

\* The port's open event.
PortOpens(h) ==
    /\ running
    /\ h \in DOMAIN transports
    /\ transports[h] = [ch |-> "serial", state |-> "opening"]
    /\ hardware["serial"]
    /\ transports' = [transports EXCEPT ![h].state = "open"]
    /\ serial' = [serial EXCEPT !.usingSimulator = FALSE, !.connected = TRUE]
    /\ channelStatus' = StatusPublished("serial", TRUE)
    /\ last' = [op |-> "portOpen", code |-> h]
    /\ UNCHANGED <<mqtt, probeTimers, hardware, listening, running, tasks,
                   samples, systemSettings, outsideChannels>>

\* The port's error event when it cannot be opened; notFound: the message is
\* one the handler takes for "port not found".
PortError(h, notFound) ==
    /\ running
    /\ h \in DOMAIN transports
    /\ transports[h] = [ch |-> "serial", state |-> "opening"]
    /\ ~hardware["serial"]
    /\ transports' = [transports EXCEPT ![h].state = "failed"]
    /\ IF notFound
         THEN /\ serial' = StartSimulator(serial)
              /\ channelStatus' = IF serial.usingSimulator THEN channelStatus
                                   ELSE StatusPublished("serial", TRUE)
              /\ UNCHANGED running
         ELSE /\ running' = EmitError
              /\ channelStatus' = StatusPublished("serial", FALSE)
              /\ UNCHANGED serial
    /\ last' = [op |-> "portError", code |-> h]
    /\ UNCHANGED <<mqtt, probeTimers, hardware, listening, tasks, samples,
                   systemSettings, outsideChannels>>

\* The port's close event.
PortClosed(h) ==
    /\ running
    /\ h \in DOMAIN transports
    /\ transports[h] = [ch |-> "serial", state |-> "closing"]
    /\ transports' = [transports EXCEPT ![h].state = "closed"]
    /\ serial' = IF serial.usingSimulator THEN serial
                  ELSE [serial EXCEPT !.connected = FALSE]
    /\ last' = [op |-> "portClose", code |-> h]
    /\ UNCHANGED <<mqtt, probeTimers, hardware, listening, running, tasks,
                   samples, systemSettings, outsideIngest>>

\* A line arrives on an open port and parses: a reading is emitted.
PortData(h) ==
    /\ running
    /\ h \in DOMAIN transports
    /\ transports[h] = [ch |-> "serial", state |-> "open"]
    /\ samples' = [samples EXCEPT !["serial"] = "transport"]
    /\ last' = [op |-> "portData", code |-> h]
    /\ UNCHANGED <<serial, mqtt, transports, probeTimers, hardware, listening,
                   running, tasks, systemSettings, outsideIngest>>

\* The simulator's interval fires: if (this.connected) a reading is emitted.
SerialSimulatorTick ==
    /\ running
    /\ serial.simulationInterval
    /\ serial.connected
    /\ samples' = [samples EXCEPT !["serial"] = "simulated"]
    /\ last' = [op |-> "serialTick", code |-> 0]
    /\ UNCHANGED <<serial, mqtt, transports, probeTimers, hardware, listening,
                   running, tasks, systemSettings, outsideIngest>>

\* POST /api/settings/mqtt: the settings are stored, the ingestor's config
\* updated, and mqttClient.reconnect() runs disconnect() up to its 500 ms.
PostMqttSettings ==
    /\ running
    /\ Cardinality(SettingsTasks) < MaxUpdates
    /\ systemSettings' = UpsertSettings("mqtt", [host |-> "broker"])
    /\ mqtt' = MqttDisconnected(mqtt)
    /\ transports' = EndCalled(mqtt.mqttClient)
    /\ tasks' = Append(tasks, [NewTask("settings", "mqtt", "cooldown")
                                  EXCEPT !.disconnects = 1])
    /\ last' = [op |-> "disconnect", code |-> Len(tasks) + 1]
    /\ UNCHANGED <<serial, probeTimers, hardware, listening, running, samples,
                   outsideIngest>>

\* Where a call goes on once mqttClient.connect() has returned.
AfterMqttConnect(task, outcome) ==
    IF task.kind = "startup" /\ outcome = "returned"
      THEN [task EXCEPT !.ch = "serial", !.pc = "connect", !.connects = 0]
      ELSE [task EXCEPT !.pc = "done", !.connects = @ + 1,
                        !.outcome = outcome]

\* mqttClient.connect() (called by initializeServices, or by reconnect once
\* its 500 ms are over); throws: mqtt's connect() throws.
MqttConnect(t, throws) ==
    /\ running
    /\ t \in DOMAIN tasks
    /\ tasks[t].ch = "mqtt"
    /\ tasks[t].pc \in {"connect", "cooldown"}
    /\ LET stopped == [mqtt EXCEPT !.simulateTimer = FALSE]
           h == Len(transports) + 1
       IN IF throws
            THEN /\ mqtt' = IF EmitError THEN StartWeightSimulation(stopped)
                             ELSE stopped
                 /\ tasks' = [tasks EXCEPT ![t] =
                        AfterMqttConnect(@, IF EmitError THEN "returned"
                                            ELSE "thrown")]
                 /\ channelStatus' = StatusPublished("mqtt", FALSE)
                 /\ UNCHANGED <<transports, probeTimers>>
            ELSE /\ mqtt' = [stopped EXCEPT !.mqttClient = h]
                 /\ UNCHANGED channelStatus
                 /\ transports' = Append(transports,
                                         [ch |-> "mqtt", state |-> "connecting"])
                 /\ probeTimers' = probeTimers \cup {h}
                 /\ tasks' = [tasks EXCEPT ![t] =
                                  AfterMqttConnect(@, "returned")]
    /\ last' = [op |-> "connect", code |-> t]
    /\ UNCHANGED <<serial, hardware, listening, running, samples,
                   systemSettings, outsideChannels>>

\* The client's connect event.
BrokerConnect(h) ==
    /\ running
    /\ h \in DOMAIN transports
    /\ transports[h] = [ch |-> "mqtt", state |-> "connecting"]
    /\ hardware["mqtt"]
    /\ transports' = [transports EXCEPT ![h].state = "connected"]
    /\ mqtt' = [mqtt EXCEPT !.connected = TRUE, !.usingSimulator = FALSE]
    /\ channelStatus' = StatusPublished("mqtt", TRUE)
    /\ last' = [op |-> "brokerConnect", code |-> h]
    /\ UNCHANGED <<serial, probeTimers, hardware, listening, running, tasks,
                   samples, systemSettings, outsideChannels>>

\* The client's error event (the broker refuses or cannot be reached).
BrokerError(h) ==
    /\ running
    /\ h \in DOMAIN transports
    /\ transports[h] = [ch |-> "mqtt", state |-> "connecting"]
    /\ ~hardware["mqtt"]
    /\ running' = EmitError
    /\ mqtt' = IF EmitError THEN StartWeightSimulation(mqtt) ELSE mqtt
    /\ channelStatus' = StatusPublished("mqtt", FALSE)
    /\ last' = [op |-> "brokerError", code |-> h]
    /\ UNCHANGED <<serial, transports, probeTimers, hardware, listening,
                   tasks, samples, systemSettings, outsideChannels>>

\* The client's close event: its stream is gone, after a failed attempt or
\* after end().
BrokerClose(h) ==
    /\ running
    /\ h \in DOMAIN transports
    /\ transports[h].ch = "mqtt"
    /\ \/ transports[h].state = "connecting" /\ ~hardware["mqtt"]
       \/ transports[h].state = "ending"
    /\ transports' = [transports EXCEPT
                         ![h].state = IF @ = "ending" THEN "ended" ELSE @]
    /\ mqtt' = [mqtt EXCEPT !.connected = FALSE]
    /\ last' = [op |-> "brokerClose", code |-> h]
    /\ UNCHANGED <<serial, probeTimers, hardware, listening, running, tasks,
                   samples, systemSettings, outsideIngest>>

\* The client's offline event.
BrokerOffline(h) ==
    /\ running
    /\ h \in DOMAIN transports
    /\ transports[h] = [ch |-> "mqtt", state |-> "connecting"]
    /\ ~hardware["mqtt"]
    /\ mqtt' = StartWeightSimulation([mqtt EXCEPT !.connected = FALSE])
    /\ last' = [op |-> "brokerOffline", code |-> h]
    /\ UNCHANGED <<serial, transports, probeTimers, hardware, listening,
                   running, tasks, samples, systemSettings, outsideIngest>>

\* A message on the weight topic that parses: a reading is emitted.
BrokerMessage(h) ==
    /\ running
    /\ h \in DOMAIN transports
    /\ transports[h] = [ch |-> "mqtt", state |-> "connected"]
    /\ samples' = [samples EXCEPT !["mqtt"] = "transport"]
    /\ last' = [op |-> "brokerMessage", code |-> h]
    /\ UNCHANGED <<serial, mqtt, transports, probeTimers, hardware, listening,
                   running, tasks, systemSettings, outsideIngest>>

\* The 15 s timer connect() set fires.
ProbeTimeout(h) ==
    /\ running
    /\ h \in probeTimers
    /\ probeTimers' = probeTimers \ {h}
    /\ mqtt' = IF ~mqtt.connected THEN StartWeightSimulation(mqtt) ELSE mqtt
    /\ last' = [op |-> "probeTimeout", code |-> h]
    /\ UNCHANGED <<serial, transports, hardware, listening, running, tasks,
                   samples, systemSettings, outsideIngest>>

\* The simulator's interval fires: if (this.connected) a message is emitted.
MqttSimulatorTick ==
    /\ running
    /\ mqtt.simulateTimer
    /\ mqtt.connected
    /\ samples' = [samples EXCEPT !["mqtt"] = "simulated"]
    /\ last' = [op |-> "mqttTick", code |-> 0]
    /\ UNCHANGED <<serial, mqtt, transports, probeTimers, hardware, listening,
                   running, tasks, systemSettings, outsideIngest>>

\* The scale, or the broker, becomes reachable.
HardwareAppears(ch) ==
    /\ running
    /\ ~hardware[ch]
    /\ hardware' = [hardware EXCEPT ![ch] = TRUE]
    /\ last' = [op |-> "hardware", code |-> 0]
    /\ UNCHANGED <<serial, mqtt, transports, probeTimers, listening, running,
                   tasks, samples, systemSettings, outsideIngest>>

\* initializeServices up to its call of serialClient.connect().
StartUp ==
    \/ RegisterListeners
    \/ \E t \in DOMAIN tasks : \E throws \in BOOLEAN :
          tasks[t].kind = "startup" /\ MqttConnect(t, throws)

\* What the program does by itself on the scale channel: timers, awaited
\* calls, the port's events.
SerialProgress ==
    \/ StartUp
    \/ \E t \in DOMAIN tasks :
          \/ CloseReturned(t)
          \/ SerialConnectCalled(t)
          \/ ConnectCooldownEnds(t)
          \/ \E way \in ConnectWays : SerialConnectDecides(t, way)
          \/ ProbeEnds(t)
    \/ \E h \in DOMAIN transports :
          \/ PortOpens(h)
          \/ \E notFound \in BOOLEAN : PortError(h, notFound)
          \/ PortClosed(h)
    \/ SerialSimulatorTick

\* The same on the PLC channel.
MqttProgress ==
    \/ RegisterListeners
    \/ \E t \in DOMAIN tasks : \E throws \in BOOLEAN : MqttConnect(t, throws)
    \/ \E h \in DOMAIN transports :
          \/ BrokerConnect(h)
          \/ BrokerError(h)
          \/ BrokerClose(h)
          \/ BrokerOffline(h)
          \/ ProbeTimeout(h)
    \/ MqttSimulatorTick

IngestInit ==
    /\ ServerInit /\ DefaultPolicy /\ ViewInit
    /\ reading = NoReading /\ check = NoCheck /\ NothingDecoded
    /\ retryAttempts = DefaultRetryAttempts
    /\ apiConnected = FALSE
    /\ syncCalls = << >>
    /\ IngestorsInit
    /\ hardware \in [Channels -> BOOLEAN]

\* The scale channel: start-up, settings requests for the scale, the port.
SerialNext ==
    \/ SerialProgress
    \/ PostSerialSettings
    \/ \E h \in DOMAIN transports : PortData(h)
    \/ HardwareAppears("serial")

\* The broker plays no part here: it is taken to be away.
SerialInit == IngestInit /\ ~hardware["mqtt"]

SerialSpec == SerialInit /\ [][SerialNext]_vars

\* Timers fire, awaited calls return and the port delivers its events.
SerialFairSpec == SerialSpec /\ WF_vars(SerialProgress)

\* The PLC channel: start-up, settings requests for the broker, the client.
MqttNext ==
    \/ MqttProgress
    \/ PostMqttSettings
    \/ \E h \in DOMAIN transports : BrokerMessage(h)
    \/ HardwareAppears("mqtt")

\* The scale plays no part here: it is taken to be away.
MqttInit == IngestInit /\ ~hardware["serial"]

MqttSpec == MqttInit /\ [][MqttNext]_vars

\* ------------------------------------------------------------------------
\* SerialClient.parseLine on its own.  A line is the sequence of its
\* characters.  The lines are made of a stability marker, a numeral and a
\* unit, the marker before or after the weight; they carry no sign and no
\* outer white space.
Markers ==
    {<< >>, <<"S", "T">>, <<"O", "K">>, <<"s", "t", "a", "b", "l", "e">>,
     <<"S">>, <<"U", "S">>, <<"u", "n", "s", "t", "a", "b", "l", "e">>,
     <<"U">>}
StableMarkers ==
    {<<"S", "T">>, <<"O", "K">>, <<"s", "t", "a", "b", "l", "e">>, <<"S">>}
Numerals == {<<"1", "2">>, <<"1", ".", "0", "8">>, <<"0", ",", "5">>}
Units == {<< >>, <<"k", "g">>, <<"g">>}

\* The parts of a line, and its text.
LineParts == [marker : Markers, numeral : Numerals \cup {<< >>}, unit : Units,
              markerFirst : BOOLEAN]

Text(parts) ==
    IF parts.markerFirst
      THEN parts.marker \o <<",">> \o parts.numeral \o parts.unit
      ELSE parts.numeral \o parts.unit \o <<",">> \o parts.marker

Digits == <<"0", "1", "2", "3", "4", "5", "6", "7", "8", "9">>
IsDigit(c) == \E d \in DOMAIN Digits : Digits[d] = c
DigitValue(c) == (CHOOSE d \in DOMAIN Digits : Digits[d] = c) - 1

\* The letters of the lines, and the case folding of a regular expression
\* with the i flag.
UpperCase == <<"S", "T", "O", "K", "U">>
LowerCase == <<"s", "t", "o", "k", "u">>
Lower(c) ==
    IF \E k \in DOMAIN UpperCase : UpperCase[k] = c
      THEN LowerCase[CHOOSE k \in DOMAIN UpperCase : UpperCase[k] = c]
      ELSE c

\* \w: a letter, a digit or the underscore.
IsWordChar(c) ==
    \/ IsDigit(c)
    \/ Lower(c) \in {"a", "b", "e", "g", "k", "l", "n", "o", "s", "t", "u", "_"}

\* The pattern (lower case) matches the text at position i, whatever the case.
MatchesAt(text, pattern, i) ==
    /\ i + Len(pattern) - 1 <= Len(text)
    /\ \A k \in DOMAIN pattern : Lower(text[i + k - 1]) = pattern[k]

\* /pattern/i.test(text).
Contains(text, pattern) ==
    \E i \in DOMAIN text : MatchesAt(text, pattern, i)

\* /\bpattern\b/i.test(text), for a pattern of word characters.
ContainsWord(text, pattern) ==
    \E i \in DOMAIN text :
        /\ MatchesAt(text, pattern, i)
        /\ i = 1 \/ ~IsWordChar(text[i - 1])
        /\ i + Len(pattern) > Len(text)
             \/ ~IsWordChar(text[i + Len(pattern)])

\* /ST|OK|stable|\bS\b/i.test(trimmed) ? true
\*   : /US|unstable|\bU\b/i.test(trimmed) ? false : true
Stable(text) ==
    IF \/ Contains(text, <<"s", "t">>)
       \/ Contains(text, <<"o", "k">>)
       \/ Contains(text, <<"s", "t", "a", "b", "l", "e">>)
       \/ ContainsWord(text, <<"s">>)
      THEN TRUE
      ELSE IF \/ Contains(text, <<"u", "s">>)
              \/ Contains(text, <<"u", "n", "s", "t", "a", "b", "l", "e">>)
              \/ ContainsWord(text, <<"u">>)
             THEN FALSE
             ELSE TRUE

\* /kg/i.test(trimmed) ? "kg" : /g\b/i.test(trimmed) ? "g" : "kg"
UnitOf(text) ==
    IF Contains(text, <<"k", "g">>) THEN "kg"
    ELSE IF \E i \in DOMAIN text :
               /\ Lower(text[i]) = "g"
               /\ i = Len(text) \/ ~IsWordChar(text[i + 1])
           THEN "g"
           ELSE "kg"

\* trimmed.match(/(-?\d+(?:[\.,]\d+)?)/): where the first run of digits
\* begins (0: no match), where it ends, and where the fraction ends.
NumberStart(text) ==
    IF \E i \in DOMAIN text : IsDigit(text[i])
      THEN CHOOSE i \in DOMAIN text :
               /\ IsDigit(text[i])
               /\ \A j \in 1..(i - 1) : ~IsDigit(text[j])
      ELSE 0

RunEnd(text, from) ==
    CHOOSE e \in from..Len(text) :
        /\ \A j \in from..e : IsDigit(text[j])
        /\ e = Len(text) \/ ~IsDigit(text[e + 1])

HasFraction(text, e) ==
    /\ e + 2 <= Len(text)
    /\ text[e + 1] \in {".", ","}
    /\ IsDigit(text[e + 2])

RECURSIVE DigitsValue(_, _, _)
DigitsValue(text, from, to) ==
    IF to < from THEN 0
    ELSE 10 * DigitsValue(text, from, to - 1) + DigitValue(text[to])

RECURSIVE Pow10(_)
Pow10(n) == IF n = 0 THEN 1 ELSE 10 * Pow10(n - 1)

\* parseFloat of the match, in thousandths (the numerals have at most three
\* decimals).
Thousandths(text) ==
    LET b == NumberStart(text)
        e == RunEnd(text, b)
        whole == DigitsValue(text, b, e)
    IN IF HasFraction(text, e)
         THEN LET f == RunEnd(text, e + 2)
              IN Thousand * whole
                   + DigitsValue(text, e + 2, f) * Pow10(3 - (f - e - 1))
         ELSE Thousand * whole

\* Math.round(valueKg * 1000) / 1000 in grams, valueKg being weight / 1000
\* for a line in grams.
ParsedGrams(text) ==
    IF UnitOf(text) = "g"
      THEN (Thousandths(text) + Thousand \div 2) \div Thousand
      ELSE Thousandths(text)

\* SerialClient.parseLine.
ParseLine(text) ==
    IF text = << >> \/ NumberStart(text) = 0
      THEN [outcome |-> "null"]
      ELSE [outcome |-> "reading", weight |-> ParsedGrams(text),
            stable |-> Stable(text)]

\* A line arrives; the data handler parses it.
ParserInit ==
    /\ ServerInit /\ ServicesInit /\ DefaultPolicy /\ ViewInit
    /\ reading = NoReading /\ check = NoCheck
    /\ wire \in LineParts
    /\ decoded = [outcome |-> "none"]

CallParseLine ==
    /\ decoded.outcome = "none"
    /\ decoded' = ParseLine(Text(wire))
    /\ UNCHANGED <<tareConfigs, lorryQueue, weighments, activities,
                   validationAction, systemSettings, pendingSaves,
                   pendingSettings, nextId, last, inflight, nreq, policyVars,
                   reading, check, wire, currentWeightReading, viewVars,
                   observerVars, serviceVars>>

ParserSpec == ParserInit /\ [][CallParseLine]_vars

\* ------------------------------------------------------------------------
\* The PLC ingestor's message handler on its own, with the listener
\* initializeServices registers for its "message" event.  The payload is what
\* JSON.parse made of the message: a number, or an object with some of the
\* fields weight, value, data and d.  A JavaScript value is written with its
\* type; n is the number itself (in grams), the number parseFloat makes of a
\* string (NoNumber: NaN), or the weight an object holds.
Undefined == [type |-> "undefined", n |-> NoNumber]
NumberValue(n) == [type |-> "number", n |-> n]
\* The strings "abc" and "1.08".
TextValue == [type |-> "string", n |-> NoNumber]
NumeralValue == [type |-> "string", n |-> 1080]
\* The object {weight: 1.08}.
NestedValue == [type |-> "object", n |-> 1080]

Payloads ==
    [kind : {"number"}, n : {0, 1080},
     weight : {Undefined}, value : {Undefined}, data : {Undefined},
     d : {Undefined}]
    \cup
    [kind : {"object"}, n : {NoNumber},
     weight : {Undefined, NumberValue(0), NumberValue(1080), TextValue,
               NumeralValue},
     value : {Undefined, NumberValue(1000), TextValue},
     data : {Undefined, NumberValue(1000)},
     d : {Undefined, NestedValue}]

\* The entries of weightFields that the payloads carry, in its order.
WeightFields == <<"weight", "value", "data", "d">>

\* typeof value === "number", or a string parseFloat makes a number of.
YieldsNumber(v) ==
    v.type = "number" \/ (v.type = "string" /\ v.n # NoNumber)

NoWeight == [found |-> FALSE, n |-> NoNumber]
Weight(n) == [found |-> TRUE, n |-> n]

\* The largest weight the last loop of extractWeight takes for one: 10000.
ReasonableWeight == 10000 * Thousand

\* MQTTClient.extractWeight.
ExtractWeight(p) ==
    IF p.kind = "number" THEN Weight(p.n)
    ELSE LET named == {k \in DOMAIN WeightFields :
                          YieldsNumber(p[WeightFields[k]])}
             first == CHOOSE k \in named : \A j \in named : k <= j
             loose == {k \in DOMAIN WeightFields :
                          /\ p[WeightFields[k]].type = "number"
                          /\ p[WeightFields[k]].n > 0
                          /\ p[WeightFields[k]].n < ReasonableWeight}
         IN IF named # {} THEN Weight(p[WeightFields[first]].n)
            ELSE IF p.d.type = "object" THEN Weight(p.d.n)
            ELSE IF loose # {}
                   THEN Weight(p[WeightFields[CHOOSE k \in loose :
                                                 \A j \in loose : k <= j]].n)
                   ELSE NoWeight

\* The payload of the message emitted: { weight, ...payload }.  The spread
\* of a number adds nothing; the spread of an object overwrites weight with
\* the object's own.
EmittedPayload(p, w) ==
    IF p.kind = "number" \/ p.weight = Undefined
      THEN [p EXCEPT !.kind = "object", !.n = NoNumber,
                     !.weight = NumberValue(w)]
      ELSE p

\* A value is falsy if it is undefined or the number 0 (the strings and
\* objects here are not empty).
FalsyValue(v) == v = Undefined \/ v = NumberValue(0)

\* message.payload?.weight || message.payload?.value || message.payload?.data
ListenerWeight(p) ==
    IF ~FalsyValue(p.weight) THEN p.weight
    ELSE IF ~FalsyValue(p.value) THEN p.value
    ELSE p.data

\* The message handler and, if it emits, the listener: what was extracted
\* and what was stored as plcWeight and published (Undefined: nothing).
HandleMessage(p) ==
    LET w == ExtractWeight(p)
    IN [outcome |-> "handled", extracted |-> w,
        recorded |-> IF w.found THEN ListenerWeight(EmittedPayload(p, w.n))
                     ELSE Undefined]

PayloadInit ==
    /\ ServerInit /\ ServicesInit /\ DefaultPolicy /\ ViewInit
    /\ reading = NoReading /\ check = NoCheck
    /\ wire \in Payloads
    /\ decoded = [outcome |-> "none"]

\* A message arrives from the broker.
MessageArrives ==
    /\ decoded.outcome = "none"
    /\ decoded' = HandleMessage(wire)
    /\ UNCHANGED <<tareConfigs, lorryQueue, weighments, activities,
                   validationAction, systemSettings, pendingSaves,
                   pendingSettings, nextId, last, inflight, nreq, policyVars,
                   reading, check, wire, currentWeightReading, viewVars,
                   observerVars, serviceVars>>

PayloadSpec == PayloadInit /\ [][MessageArrives]_vars

\* ------------------------------------------------------------------------
\* The tolerance check on its own: a validator constructed with any policy
\* is handed any reading, and so is the weighing view's calculateValidation.
\* The weights are 0, a pair that is 50 g apart below 1 kg, and 1 kg with
\* weights 30, 50, 80, 100 and 200 g above it.
SampleWeights == {0, 51, 101, 1000, 1030, 1050, 1080, 1100, 1200}

Readings ==
    [plcWeight : SampleWeights \cup {NoNumber},
     serialWeight : SampleWeights \cup {NoNumber}]

ValidatorInit ==
    /\ ServerInit
    /\ ServicesInit
    /\ ViewInit
    /\ toleranceRange \in ToleranceRanges
    /\ weightSourcePriority \in WeightSourcePriorities
    /\ validationAction \in ValidationActions
    /\ reading \in Readings
    /\ check = NoCheck
    /\ NothingDecoded

\* weightValidator.validateWeights(reading) is called.
CallValidateWeights ==
    /\ check.validator.outcome = "none"
    /\ check' = [check EXCEPT !.validator = ValidateWeights(reading)]
    /\ UNCHANGED <<tareConfigs, lorryQueue, weighments, activities,
                   validationAction, systemSettings, pendingSaves,
                   pendingSettings, nextId, last, inflight, nreq, policyVars,
                   reading, codecVars, currentWeightReading, viewVars,
                   observerVars, serviceVars>>

\* The weighing view renders: const validation = calculateValidation().
CallCalculateValidation ==
    /\ check.view.outcome = "none"
    /\ check' = [check EXCEPT !.view = CalculateValidation(reading)]
    /\ UNCHANGED <<tareConfigs, lorryQueue, weighments, activities,
                   validationAction, systemSettings, pendingSaves,
                   pendingSettings, nextId, last, inflight, nreq, policyVars,
                   reading, codecVars, currentWeightReading, viewVars,
                   observerVars, serviceVars>>

ValidatorNext ==
    \/ CallValidateWeights
    \/ CallCalculateValidation

ValidatorSpec == ValidatorInit /\ [][ValidatorNext]_vars

\* ------------------------------------------------------------------------
\* Properties.

\* The weighments a step adds.
AddedWeighments == DOMAIN weighments' \ DOMAIN weighments

\* C1: in every reachable state at most one lorry in the store has status
\* active.
C1_AtMostOneActive == Cardinality(ActiveLorries) <= 1

\* C2: a status request that moves a waiting lorry to active while another
\* lorry is active, or while no tare configuration exists for today, is
\* answered with a rejection and leaves the stored status waiting.
C2_ActivationGuarded ==
    [][\A id \in LorryIdInputs, b \in BagInputs :
         ( /\ PatchLorryStatus(id, "active", b)
           /\ id \in DOMAIN lorryQueue
           /\ lorryQueue[id].status = "waiting"
           /\ (ActiveLorries \ {id} # {} \/ ~TareConfiguredToday) )
         => ( /\ last'.code >= 400
              /\ lorryQueue'[id].status = "waiting" )]_vars

\* C3: of two activate requests for two different waiting lorries that were
\* in flight together, with a tare configured for today, exactly one is
\* answered with success and the other with a rejection.
C3_RaceHasOneWinner ==
    \A r1, r2 \in DOMAIN inflight :
        ( /\ r1 # r2
          /\ TareConfiguredToday
          /\ inflight[r1].pc = "done" /\ inflight[r2].pc = "done"
          /\ inflight[r1].raced /\ inflight[r2].raced
          /\ inflight[r1].status = "active" /\ inflight[r2].status = "active"
          /\ inflight[r1].prev = "waiting" /\ inflight[r2].prev = "waiting"
          /\ inflight[r1].id # inflight[r2].id )
        => \/ inflight[r1].code = 200 /\ inflight[r2].code >= 400
           \/ inflight[r2].code = 200 /\ inflight[r1].code >= 400

\* C4: a status request that asks for a change other than waiting -> active
\* or active -> completed (a change away from completed and a status outside
\* the vocabulary included) is answered with a rejection and leaves the
\* lorry as it was.
LegalTransitions == {<<"waiting", "active">>, <<"active", "completed">>}

C4_ForwardOnly ==
    [][\A id \in LorryIdInputs, st \in StatusValues, b \in BagInputs :
         ( /\ PatchLorryStatus(id, st, b)
           /\ id \in DOMAIN lorryQueue
           /\ st # lorryQueue[id].status
           /\ <<lorryQueue[id].status, st>> \notin LegalTransitions )
         => ( /\ last'.code >= 400
              /\ lorryQueue'[id] = lorryQueue[id] )]_vars

\* C5: every lorry a create request adds to the queue has status waiting
\* right after that request, whatever the request carried.
C5_CreatedWaiting ==
    [][\A id \in DOMAIN lorryQueue' \ DOMAIN lorryQueue :
         lorryQueue'[id].status = "waiting"]_vars

\* C6: a weighment is persisted only by a save request that names a lorry
\* which is in the queue with status active and that carries a non-empty
\* tag.
C6_SaveNeedsActiveAndTag ==
    [][\A id \in AddedWeighments :
         /\ weighments'[id].lorryId \in DOMAIN lorryQueue
         /\ lorryQueue[weighments'[id].lorryId].status = "active"
         /\ weighments'[id].tagId # ""]_vars

\* A save request that is in order but for its tolerance status: it names
\* an active lorry of the queue and carries a tag.
CaptureInOrder(body) ==
    /\ body.tagId \notin {Absent, ""}
    /\ body.lorryId \in DOMAIN lorryQueue
    /\ lorryQueue[body.lorryId].status = "active"

\* C7: a save request in order whose tolerance status is error persists
\* nothing while the validation action is block, and persists one weighment
\* with toleranceStatus error while it is log.
C7_BlockPolicy ==
    [][\A body \in WeighmentBodies :
         ( /\ PostWeighment(body)
           /\ CaptureInOrder(body)
           /\ body.toleranceStatus = "error" )
         => /\ validationAction = "block" => AddedWeighments = {}
            /\ validationAction = "log" =>
                 /\ Cardinality(AddedWeighments) = 1
                 /\ \A id \in AddedWeighments :
                       weighments'[id].toleranceStatus = "error"]_vars

\* C8: every weighment persisted for an active lorry has netWeight =
\* finalWeight - tareWeight, tareWeight being the tare configured for that
\* lorry when it is saved.
C8_NetIsGrossMinusTare ==
    [][\A id \in AddedWeighments :
         LET w == weighments'[id]
         IN CaptureInOrder(w) =>
              /\ w.tareWeight = ConfiguredTare(w.lorryId)
              /\ w.netWeight = w.finalWeight - w.tareWeight]_vars

\* C9: in every reachable state every weighment's lorryId is the id of a
\* lorry that is in the queue.
C9_WeighmentsReferToLorries ==
    \A id \in DOMAIN weighments : weighments[id].lorryId \in DOMAIN lorryQueue

\* C10: a save request that passes validation adds exactly one weighment, no
\* other step adds any, and no step changes or removes a weighment that
\* exists.
C10_WeighmentsAppendOnly ==
    [][/\ \A id \in DOMAIN weighments :
            id \in DOMAIN weighments' /\ weighments'[id] = weighments[id]
       /\ IF last'.op = "postWeighment" /\ last'.code # 400
            THEN Cardinality(AddedWeighments) = 1
            ELSE AddedWeighments = {}]_vars

\* C10 witness: a weighment saved for a queued lorry (its handler still
\* awaits the sync) outlives the removal of that lorry.
C10_Witness ==
    /\ last = [op |-> "deleteLorry", code |-> 204]
    /\ \E id \in pendingSaves : weighments[id].lorryId \notin DOMAIN lorryQueue

\* ------------------------------------------------------------------------
\* The tolerance check (ValidatorSpec).

\* The class the specification gives a difference of d grams under a
\* tolerance of range grams.
ToleranceClass(d, range) ==
    IF d <= range THEN "good"
    ELSE IF d <= 2 * range THEN "warning"
    ELSE "error"

\* |a - b| for decimals in grams.
Distance(a, b) == IF a < b THEN b - a ELSE a - b

\* C15: for a reading with two weights (both above 0 here), the status the
\* validator returns is good when the weights differ by at most the
\* tolerance, warning when by more than that and at most twice the
\* tolerance, and error otherwise; so is the status the weighing view
\* computes under its tolerance of 0.05 kg.
C15_StatusByThresholds ==
    (reading.plcWeight > 0 /\ reading.serialWeight > 0) =>
        /\ check.validator.outcome # "none" =>
              /\ check.validator.outcome = "returned"
              /\ check.validator.status =
                    ToleranceClass(Distance(reading.plcWeight, reading.serialWeight),
                                   toleranceRange)
        /\ check.view.outcome # "none" =>
              check.view.status =
                 ToleranceClass(Distance(reading.plcWeight, reading.serialWeight),
                                ViewTolerance)

\* The one weight of a reading that has exactly one, and its source.
OnlyWeight == IF reading.plcWeight = NoNumber THEN reading.serialWeight
              ELSE reading.plcWeight
OnlySource == IF reading.plcWeight = NoNumber THEN "serial" ELSE "plc"

\* The check of a reading with one weight, as the specification gives it.
OneSourceCheck(c) ==
    /\ c.outcome = "returned"
    /\ c.status = "good"
    /\ c.difference = Number(0)
    /\ c.finalWeight = Number(OnlyWeight)
    /\ c.weightSource = OnlySource

\* C16: for a reading in which exactly one source has a weight, under every
\* policy, the check has status good, difference 0, that weight as
\* finalWeight and that source as weightSource.
C16_OneSourceIsGood ==
    ((reading.plcWeight = NoNumber) # (reading.serialWeight = NoNumber)) =>
        /\ check.validator.outcome # "none" => OneSourceCheck(check.validator)
        /\ check.view.outcome # "none" => OneSourceCheck(check.view)

\* The check of a reading without weights, as the specification gives it.
SentinelCheck(c) ==
    /\ c.outcome = "returned"
    /\ c.status = "error"
    /\ c.difference = Number(0)
    /\ c.finalWeight = Number(0)
    /\ c.weightSource = "plc"

\* C17: for a reading in which neither source has a weight, computing the
\* check raises no exception and returns difference 0, status error,
\* finalWeight 0 and weightSource plc (the controller).
C17_NoSampleGivesSentinel ==
    (reading.plcWeight = NoNumber /\ reading.serialWeight = NoNumber) =>
        /\ check.validator.outcome # "none" => SentinelCheck(check.validator)
        /\ check.view.outcome # "none" => SentinelCheck(check.view)

\* C18: for a reading in which both sources have a weight, 0 included, the
\* validator's check has difference |plcWeight - serialWeight|, and has the
\* plc weight, the serial weight or their mean as finalWeight, and plc,
\* serial or average as weightSource, as weightSourcePriority says, whatever
\* the status.
C18_DifferenceAndSelection ==
    ( /\ reading.plcWeight # NoNumber
      /\ reading.serialWeight # NoNumber
      /\ check.validator.outcome # "none" ) =>
        /\ check.validator.outcome = "returned"
        /\ check.validator.difference =
              AbsMinus(Number(reading.plcWeight), Number(reading.serialWeight))
        /\ check.validator.finalWeight =
              CASE weightSourcePriority = "plc" -> Number(reading.plcWeight)
                [] weightSourcePriority = "serial" -> Number(reading.serialWeight)
                [] weightSourcePriority = "average" ->
                      Half(Plus(Number(reading.plcWeight),
                                Number(reading.serialWeight)))
        /\ check.validator.weightSource = weightSourcePriority
\* ------------------------------------------------------------------------
\* Bag counts and the tolerance check of a capture (WeighingSpec).

\* The stored bag count of a lorry, an unset count read as none.
StoredBags(id) ==
    IF lorryQueue[id].totalBags = NoNumber THEN 0 ELSE lorryQueue[id].totalBags

\* C11: every successful capture raises the stored totalBags of its lorry by
\* one, so an active lorry's stored totalBags is the number of its weighments.
C11_BagsCountCaptures ==
    \A id \in ActiveLorries : StoredBags(id) = Cardinality(WeighmentsOf(id))

\* C12: a lorry activated, given three captures and then completed has a
\* stored totalBags of 3 (or 4), whichever view completed it.
C12_ThreeCapturesThenComplete ==
    \A id \in DOMAIN lorryQueue :
        (/\ lorryQueue[id].status = "completed"
         /\ Cardinality(WeighmentsOf(id)) = 3)
        => StoredBags(id) \in {3, 4}

\* C19: the tolerance check of a capture is the one the validator computes
\* with the toleranceRange and weightSourcePriority accepted last, and the
\* weighments captured before keep their results.
C19_CaptureUsesUpdatedPolicy ==
    [][\A w \in AddedWeighments :
          /\ ~Falsy(currentWeights.plcWeight)
          /\ ~Falsy(currentWeights.serialWeight)
          => LET expected == ValidateWeights(currentWeights)
             IN /\ weighments'[w].toleranceStatus = expected.status
                /\ weighments'[w].finalWeight = expected.finalWeight
                /\ \A old \in DOMAIN weighments :
                      weighments'[old] = weighments[old]]_vars

\* C20: the toleranceStatus stored with a weighment is the class of its
\* weightDifference under the tolerance configured when it is captured.
C20_StoredStatusMatchesDifference ==
    [][\A w \in AddedWeighments :
          weighments'[w].toleranceStatus =
              GetToleranceStatus(weighments'[w].weightDifference,
                                 Number(toleranceRange))]_vars

\* ------------------------------------------------------------------------
\* What the observers are sent (ObserverSpec).

\* The events an observer is sent in this step.
Delivered(o) == received'[o] \ received[o]

\* The event a route handler publishes with the answer it has just given.
PublishedWith ==
    CASE last'.op = "postLorry" /\ last'.code = 201 -> "lorry_queue_updated"
      [] last'.op = "patchStatus" /\ last'.code = 200 -> "lorry_status_updated"
      [] last'.op = "deleteLorry" /\ last'.code = 204 -> "lorry_removed"
      [] last'.op \in {"postWeighment", "finishWeighment"} /\ last'.code = 201
           -> "weighment_created"
      [] OTHER -> Absent

\* C13: every successful capture, creation, status change and removal is
\* followed by its event delivered to every observer connected then.
C13_RouteEventsReachObservers ==
    [][(last' # last /\ PublishedWith # Absent)
       => \A o \in clients : \E e \in Delivered(o) : e.type = PublishedWith]_vars

\* C14: an event is sent, as it is published, to the observers connected at
\* that moment and to no one else: nothing is kept for or replayed to an
\* observer that connects later.
C14_NoReplayToLateObservers ==
    [][\A o \in Observers : \A e \in Delivered(o) :
          /\ o \in clients
          /\ emitted' = emitted + 1
          /\ e.seq = emitted']_vars

\* C14, its case: an observer is connected and holds nothing, while events
\* published before it connected reached another observer.
C14_Witness ==
    \E o \in clients : \E other \in Observers :
        /\ received[o] = {}
        /\ received[other] # {}

\* ------------------------------------------------------------------------
\* Forwarding a capture (ForwardSpec, ForwardFairSpec).

\* The ingestor of the scale channel is in use: connected, over the port or
\* with the simulator's interval running.
SerialConnected == serial.connected /\ ~serial.usingSimulator
SerialSimulated ==
    serial.connected /\ serial.usingSimulator /\ serial.simulationInterval

\* The first connect() of the scale ingestor is under way with no scale there.
FreshConnectWithoutScale ==
    /\ SettingsTasks = {}
    /\ ~hardware["serial"]
    /\ \E t \in DOMAIN tasks :
          tasks[t].kind = "startup" /\ tasks[t].pc = "importing"

\* C21: a connect() of a fresh ingestor that finds no hardware leads to the
\* ingestor being simulated (or connected, should the hardware turn up): it
\* does not stay for ever neither connected nor simulated.
C21_MissingHardwareLeadsToSimulator ==
    FreshConnectWithoutScale ~> (SerialSimulated \/ SerialConnected)

\* C22: once the PLC ingestor is simulated, only an explicit disconnect (on
\* its own or within a reconnect) takes the simulator flag down.
C22_SimulatedUntilDisconnect ==
    [][mqtt.usingSimulator /\ ~mqtt'.usingSimulator
         => last'.op = "disconnect"]_vars

\* No port the scale ingestor created is open or opening.
NoPortHeld ==
    \A h \in DOMAIN transports :
        transports[h].ch = "serial"
            => transports[h].state \in {"closing", "closed", "failed"}

\* C23: when disconnect() returns the scale ingestor is disconnected, holds
\* no port, no port of its making is left open or opening, and the simulator's
\* interval is stopped.
C23_DisconnectReleasesEverything ==
    [][last'.op = "disconnect"
         => /\ ~serial'.connected
            /\ ~serial'.usingSimulator
            /\ ~serial'.simulationInterval
            /\ serial'.serialPortInstance = 0
            /\ NoPortHeld']_vars

\* C24: no connect() ends by throwing and no transport failure ends the
\* process.
C24_ConnectNeverThrows ==
    /\ running
    /\ \A t \in DOMAIN tasks : tasks[t].outcome # "thrown"

\* C25: a settings update for the scale that has been served made the
\* ingestor disconnect exactly once and connect exactly once.
C25_OneDisconnectOneConnect ==
    \A t \in SettingsTasks :
        tasks[t].pc = "done"
            => tasks[t].disconnects = 1 /\ tasks[t].connects = 1

\* Events of a client, and timers of a connect().
ClientEvents == {"brokerConnect", "brokerError", "brokerClose",
                 "brokerOffline", "brokerMessage", "probeTimeout"}

\* A reconnect a settings update asked for has been made, and none is under
\* way.
Reconnected ==
    /\ SettingsTasks # {}
    /\ \A t \in SettingsTasks : tasks[t].pc = "done"

\* C26: after a reconnect made for a settings update, an event of a client
\* the ingestor no longer holds, or the timer of an earlier connect(), changes
\* neither the ingestor's state nor what is recorded as read.
C26_OldTransportIsInert ==
    [][(Reconnected /\ last'.op \in ClientEvents
                    /\ last'.code # mqtt.mqttClient)
         => (mqtt' = mqtt /\ samples' = samples)]_vars

\* The weighments whose handler sends its response in this step.
Answered == pendingSaves \ pendingSaves'

\* C27: whatever the forwarder returns for a capture, the weighment stays in
\* the store as it was created, the lorry queue is untouched and the request
\* is answered 201.
C27_CaptureSurvivesSync ==
    [][/\ syncCalls' # syncCalls
          => weighments' = weighments /\ lorryQueue' = lorryQueue
       /\ \A id \in Answered :
             /\ last' = [op |-> "finishWeighment", code |-> 201]
             /\ id \in DOMAIN weighments'
             /\ weighments'[id] = weighments[id]
             /\ lorryQueue' = lorryQueue]_vars

\* C27, its case: a capture has been answered 201 and is in the store, after
\* the forwarder gave up on it.
C27_Witness ==
    \E id \in DOMAIN syncCalls :
        /\ syncCalls[id].outcome = "failure"
        /\ id \notin pendingSaves
        /\ id \in DOMAIN weighments
        /\ last = [op |-> "finishWeighment", code |-> 201]

\* C28: the capture is answered without waiting for the forwarder: while a
\* delivery attempt or a backoff delay of its call is running, the request has
\* its response already.
C28_CaptureDoesNotWaitForSync ==
    \A id \in DOMAIN syncCalls :
        syncCalls[id].pc \in {"request", "backoff"} => id \notin pendingSaves

\* C29: a call of syncWeighment starts an attempt only while fewer than
\* retryAttempts have failed, makes none after the first success, and always
\* ends by returning a response.
C29_AttemptsBoundedAndCallReturns ==
    /\ [][\A id \in DOMAIN syncCalls' :
            LET before == IF id \in DOMAIN syncCalls THEN syncCalls[id]
                          ELSE NewCall
                after == syncCalls'[id]
            IN /\ after.made > before.made
                    => /\ after.made = before.made + 1
                       /\ before.made < retryAttempts
                       /\ after.made <= MaxRetryAttempts
               /\ before.pc = "returned" => after = before
               /\ after.outcome = "success" => after.made = after.attempt + 1
               /\ after.outcome \in {"none", "success", "failure"}]_vars
    /\ \A id \in 1..MaxCaptures :
          (id \in DOMAIN syncCalls)
              ~> (id \in DOMAIN syncCalls /\ syncCalls[id].pc = "returned")

\* C29, its case: a call has returned failure after as many attempts as
\* configured, more than one.
C29_Witness ==
    \E id \in DOMAIN syncCalls :
        /\ syncCalls[id].pc = "returned"
        /\ syncCalls[id].outcome = "failure"
        /\ syncCalls[id].made = retryAttempts
        /\ syncCalls[id].made >= 2

\* C30: within one call every backoff delay is at least twice the one before.
C30_BackoffDoubles ==
    \A id \in DOMAIN syncCalls :
        \A i \in 2..Len(syncCalls[id].waits) :
            syncCalls[id].waits[i] >= 2 * syncCalls[id].waits[i - 1]

\* The tolerance settings object GET /api/settings/tolerance answers with.
StoredTolerance == systemSettings["tolerance"]

\* C31: a partial update of a category's settings is merged into what
\* get-current answered before: a field the update does not name keeps the
\* value it had.
C31_UpdateKeepsUnnamedFields ==
    [][("tolerance" \in DOMAIN systemSettings /\ last'.op = "postSettings")
         => (StoredTolerance.validationAction # Absent
               => StoredTolerance'.validationAction # Absent)]_vars

\* The start-up connected the ingestors, with the listeners in place, before
\* any settings request was served.
StartedUpFirst == tasks # << >> /\ tasks[1].kind = "startup"

\* C32: every change of an ingestor's state is published as a status of its
\* channel: the status published last for the PLC channel says connected
\* exactly when the ingestor is connected.
C32_PublishedStatusAgrees ==
    StartedUpFirst
        => (channelStatus["mqtt"] = "connected" <=> mqtt.connected)

\* C33: a line whose marker is an unstable one (US, unstable, U) yields a
\* reading with stable false; a line with a stable marker (ST, OK, stable, S)
\* or with no marker yields one with stable true.
C33_StabilityFollowsMarker ==
    decoded.outcome = "reading" =>
        (decoded.stable <=> wire.marker \in StableMarkers \cup {<< >>})

\* C34: a capture request that fails the parse is answered 400 and nothing
\* else happens: no weighment is stored, no forward is started, no event is
\* published, no activity is logged and the queue is as it was.
C34_RejectedCaptureHasNoEffect ==
    [][(last'.op = "postWeighment" /\ last'.code = 400)
         => UNCHANGED <<weighments, pendingSaves, syncCalls, observerVars,
                        activities, lorryQueue, nextId>>]_vars

\* C34, its case: a capture was rejected while a lorry is in the queue and a
\* weighment is in the store.
C34_Witness ==
    /\ last = [op |-> "postWeighment", code |-> 400]
    /\ lorryQueue # << >>
    /\ weighments # << >>

C36_OneWriterPerSource ==
    [][/\ currentWeightReading'.plcWeight # currentWeightReading.plcWeight
           => /\ currentWeightReading'.plcWeight \in PlcWeights
              /\ currentWeightReading'.serialWeight
                    = currentWeightReading.serialWeight
       /\ currentWeightReading'.serialWeight # currentWeightReading.serialWeight
           => /\ currentWeightReading'.serialWeight \in SerialWeights
              /\ currentWeightReading'.plcWeight
                    = currentWeightReading.plcWeight]_vars

\* C36, its case: both sources have been heard and each weight is stored
\* under its own source.
C36_Witness ==
    /\ currentWeightReading.plcWeight \in PlcWeights
    /\ currentWeightReading.serialWeight \in SerialWeights

\* C37: once disconnect() has returned on the PLC ingestor, and until
\* connect() is called again, the ingestor does not turn connected and emits
\* no sample, whatever timer or client callback was pending.
C37_DisconnectedUntilConnect ==
    [][(mqtt = MqttDisconnected(mqtt) /\ last'.op # "connect")
         => (~mqtt'.connected /\ samples'["mqtt"] = samples["mqtt"])]_vars

\* The clients of the PLC channel that are at work (not ended or ending).
LiveClients ==
    {h \in DOMAIN transports :
        /\ transports[h].ch = "mqtt"
        /\ transports[h].state \in {"connecting", "connected"}}

\* C38: the PLC ingestor has one producer of samples at most: the simulator's
\* interval does not run while a client is connected to the broker, and no
\* two clients are at work together.
C38_OneProducer ==
    /\ ~(mqtt.simulateTimer
           /\ \E h \in LiveClients : transports[h].state = "connected")
    /\ Cardinality(LiveClients) <= 1

\* C39: the weight the PLC ingestor extracts from a payload is the value
\* stored as the latest PLC weight and published.
C39_RecordedIsExtracted ==
    (decoded.outcome = "handled" /\ decoded.extracted.found)
        => decoded.recorded = NumberValue(decoded.extracted.n)

================================================================
